---- MODULE Spec2Model ----
(***************************************************************************)
(* State-machine model of the CYD Deck host bridge: the session threads    *)
(* (BLE BluetoothThread, serial SerialThread V2, legacy CYDdeck            *)
(* SerialThread), the front-end operations that start, stop and test       *)
(* them, and the BLE frame reader.                                         *)
(*                                                                         *)
(* Bytes are integers 0..255 and decoded characters are code points.       *)
(* Time is not measured: "due" abstracts the comparison                    *)
(* time.time()-last_telemetry >= interval, and a command's duration is a   *)
(* number of loop ticks chosen by the environment.                         *)
(***************************************************************************)
EXTENDS Integers, Sequences, FiniteSets, TLC

\* ------------------------------------------------------------------ bounds
\* longest partial line kept in message_buffer before another chunk is fed
MaxBuf == 1
\* longest command duration, in loop ticks
MaxDelay == 2
\* number of connections one thread may establish
MaxConns == 2
\* longest byte stream of the frame-reader specification
MaxStream == 4
MaxTokens == 3
MaxFaults == 2
MaxUpdates == 2
MaxPercent == 20

\* ------------------------------------------------------- frame reader (BLE)
\* '\n'
NL == 10

\* str.strip() whitespace among the code points below U+0800
IsSpace(c) == c \in {9, 10, 11, 12, 13, 28, 29, 30, 31, 32, 133, 160}

RECURSIVE DecodeFrom(_, _)
\* bytes.decode('utf-8') from position i: the code points, with ok = FALSE
\* when some byte sequence is invalid (one- and two-byte sequences)
DecodeFrom(bytes, i) ==
  IF i > Len(bytes) THEN [ok |-> TRUE, chars |-> <<>>]
  ELSE LET b == bytes[i] IN
    IF b < 128
    THEN LET r == DecodeFrom(bytes, i + 1)
         IN [ok |-> r.ok, chars |-> <<b>> \o r.chars]
    ELSE IF b >= 194 /\ b <= 223 /\ i < Len(bytes)
            /\ bytes[i + 1] >= 128 /\ bytes[i + 1] <= 191
    THEN LET r == DecodeFrom(bytes, i + 2)
         IN [ok |-> r.ok,
             chars |-> <<(b - 192) * 64 + (bytes[i + 1] - 128)>> \o r.chars]
    ELSE [ok |-> FALSE, chars |-> <<>>]

\* data.decode('utf-8'): strict, raises UnicodeDecodeError (ok = FALSE)
Decode(bytes) == DecodeFrom(bytes, 1)

RECURSIVE DecodeIgnoreFrom(_, _)
\* bytes.decode('utf-8', errors='ignore'): invalid bytes are skipped
DecodeIgnoreFrom(bytes, i) ==
  IF i > Len(bytes) THEN <<>>
  ELSE LET b == bytes[i] IN
    IF b < 128 THEN <<b>> \o DecodeIgnoreFrom(bytes, i + 1)
    ELSE IF b >= 194 /\ b <= 223 /\ i < Len(bytes)
            /\ bytes[i + 1] >= 128 /\ bytes[i + 1] <= 191
    THEN <<(b - 192) * 64 + (bytes[i + 1] - 128)>> \o DecodeIgnoreFrom(bytes, i + 2)
    ELSE DecodeIgnoreFrom(bytes, i + 1)

DecodeIgnore(bytes) == DecodeIgnoreFrom(bytes, 1)

RECURSIVE LStrip(_)
LStrip(s) == IF s # <<>> /\ IsSpace(Head(s)) THEN LStrip(Tail(s)) ELSE s

RECURSIVE RStrip(_)
RStrip(s) ==
  IF s # <<>> /\ IsSpace(s[Len(s)]) THEN RStrip(SubSeq(s, 1, Len(s) - 1)) ELSE s

\* str.strip()
Strip(s) == RStrip(LStrip(s))

\* '\n' in s
HasNewline(s) == \E i \in 1..Len(s) : s[i] = NL

\* index of the first '\n' of s (s holds one)
FirstNewline(s) == CHOOSE i \in 1..Len(s) : s[i] = NL /\ \A j \in 1..(i - 1) : s[j] # NL

\* s.split('\n', 1)
SplitLine(s) ==
  LET i == FirstNewline(s)
  IN [line |-> SubSeq(s, 1, i - 1), rest |-> SubSeq(s, i + 1, Len(s))]

\* CommandParser.READY_SIGNALS:
\* "CYD Deck Ready!", "cyd deck ready!", "CYD DECK READY!", "Ready!", "ready!"
READY_SIGNALS ==
  { <<67,89,68,32,68,101,99,107,32,82,101,97,100,121,33>>,
    <<99,121,100,32,100,101,99,107,32,114,101,97,100,121,33>>,
    <<67,89,68,32,68,69,67,75,32,82,69,65,68,89,33>>,
    <<82,101,97,100,121,33>>,
    <<114,101,97,100,121,33>> }

\* the one literal the legacy SerialThread accepts: "CYD Deck Ready!"
LegacyReady == <<67,89,68,32,68,101,99,107,32,82,101,97,100,121,33>>

Min(a, b) == IF a < b THEN a ELSE b

Range(f) == {f[i] : i \in DOMAIN f}

\* ------------------------------------------- CommandParser (command_handler)
\* str.upper() and str.lower() on the code points the parser's inputs are
\* made of (ASCII and the digit-like U+00B2, which has no case)
UpperChar(c) == IF c >= 97 /\ c <= 122 THEN c - 32 ELSE c

LowerChar(c) == IF c >= 65 /\ c <= 90 THEN c + 32 ELSE c

Upper(s) == [i \in 1..Len(s) |-> UpperChar(s[i])]

Lower(s) == [i \in 1..Len(s) |-> LowerChar(s[i])]

\* s.startswith(p), s.endswith(p)
StartsWith(s, p) == Len(s) >= Len(p) /\ SubSeq(s, 1, Len(p)) = p

EndsWith(s, p) ==
  Len(s) >= Len(p) /\ SubSeq(s, Len(s) - Len(p) + 1, Len(s)) = p

\* s[a:b] for 0 <= a and a negative or in-range b, as Python slices
Slice(s, a, b) ==
  LET e == IF b < 0 THEN Len(s) + b ELSE Min(b, Len(s))
  IN IF a >= e THEN <<>> ELSE SubSeq(s, a + 1, e)

\* characters str.isdigit() accepts: '0'..'9' and superscript two (U+00B2);
\* int() takes only the first kind
IsDecimal(c) == c >= 48 /\ c <= 57

IsDigitChar(c) == IsDecimal(c) \/ c = 178

\* s.isdigit(): at least one character, all of them digits
IsDigit(s) == s # <<>> /\ \A i \in 1..Len(s) : IsDigitChar(s[i])

RECURSIVE IntValue(_)
IntValue(s) ==
  IF s = <<>> THEN 0 ELSE 10 * IntValue(SubSeq(s, 1, Len(s) - 1)) + (s[Len(s)] - 48)

\* int(s) for a string isdigit() accepted: ValueError unless all decimal
ToInt(s) ==
  IF \A i \in 1..Len(s) : IsDecimal(s[i])
  THEN [exc |-> "none", value |-> IntValue(s)]
  ELSE [exc |-> "ValueError", value |-> 0]

\* s.index(c) and s.rindex(c) as 0-based positions, for c in s
Index(s, c) ==
  (CHOOSE i \in 1..Len(s) : s[i] = c /\ \A j \in 1..(i - 1) : s[j] # c) - 1

RIndex(s, c) ==
  (CHOOSE i \in 1..Len(s) : s[i] = c /\ \A j \in (i + 1)..Len(s) : s[j] # c) - 1

RECURSIVE RStripChar(_, _)
\* s.rstrip(c) for one character c
RStripChar(s, c) ==
  IF s # <<>> /\ s[Len(s)] = c THEN RStripChar(SubSeq(s, 1, Len(s) - 1), c) ELSE s

RECURSIVE Split(_, _)
\* s.split(c): the pieces between the occurrences of c, empty ones included
Split(s, c) ==
  IF \A i \in 1..Len(s) : s[i] # c THEN <<s>>
  ELSE LET i == Index(s, c) + 1
       IN <<SubSeq(s, 1, i - 1)>> \o Split(SubSeq(s, i + 1, Len(s)), c)

\* KeyMapper.KEY_MAPPINGS as pairs <<alias, canonical name>>: 
\* CTRL, CONTROL, ALT, SHIFT, WIN, WINDOWS, CMD, SUPER, FN, FUNCTION, ENTER,
\* RETURN, SPACE, TAB, ESC, ESCAPE, BACKSPACE, DELETE, DEL, UP, DOWN, LEFT,
\* RIGHT, HOME, END, PAGEUP, PAGEDOWN, F1..F24
KEY_MAPPINGS ==
  { <<<<67,84,82,76>>, <<99,116,114,108>>>>,
    <<<<67,79,78,84,82,79,76>>, <<99,116,114,108>>>>,
    <<<<65,76,84>>, <<97,108,116>>>>,
    <<<<83,72,73,70,84>>, <<115,104,105,102,116>>>>,
    <<<<87,73,78>>, <<119,105,110>>>>,
    <<<<87,73,78,68,79,87,83>>, <<119,105,110>>>>,
    <<<<67,77,68>>, <<119,105,110>>>>,
    <<<<83,85,80,69,82>>, <<119,105,110>>>>,
    <<<<70,78>>, <<102,110>>>>,
    <<<<70,85,78,67,84,73,79,78>>, <<102,110>>>>,
    <<<<69,78,84,69,82>>, <<101,110,116,101,114>>>>,
    <<<<82,69,84,85,82,78>>, <<101,110,116,101,114>>>>,
    <<<<83,80,65,67,69>>, <<115,112,97,99,101>>>>,
    <<<<84,65,66>>, <<116,97,98>>>>,
    <<<<69,83,67>>, <<101,115,99>>>>,
    <<<<69,83,67,65,80,69>>, <<101,115,99>>>>,
    <<<<66,65,67,75,83,80,65,67,69>>, <<98,97,99,107,115,112,97,99,101>>>>,
    <<<<68,69,76,69,84,69>>, <<100,101,108,101,116,101>>>>,
    <<<<68,69,76>>, <<100,101,108,101,116,101>>>>,
    <<<<85,80>>, <<117,112>>>>,
    <<<<68,79,87,78>>, <<100,111,119,110>>>>,
    <<<<76,69,70,84>>, <<108,101,102,116>>>>,
    <<<<82,73,71,72,84>>, <<114,105,103,104,116>>>>,
    <<<<72,79,77,69>>, <<104,111,109,101>>>>,
    <<<<69,78,68>>, <<101,110,100>>>>,
    <<<<80,65,71,69,85,80>>, <<112,97,103,101,32,117,112>>>>,
    <<<<80,65,71,69,68,79,87,78>>, <<112,97,103,101,32,100,111,119,110>>>>,
    <<<<70,49>>, <<102,49>>>>,
    <<<<70,50>>, <<102,50>>>>,
    <<<<70,51>>, <<102,51>>>>,
    <<<<70,52>>, <<102,52>>>>,
    <<<<70,53>>, <<102,53>>>>,
    <<<<70,54>>, <<102,54>>>>,
    <<<<70,55>>, <<102,55>>>>,
    <<<<70,56>>, <<102,56>>>>,
    <<<<70,57>>, <<102,57>>>>,
    <<<<70,49,48>>, <<102,49,48>>>>,
    <<<<70,49,49>>, <<102,49,49>>>>,
    <<<<70,49,50>>, <<102,49,50>>>>,
    <<<<70,49,51>>, <<102,49,51>>>>,
    <<<<70,49,52>>, <<102,49,52>>>>,
    <<<<70,49,53>>, <<102,49,53>>>>,
    <<<<70,49,54>>, <<102,49,54>>>>,
    <<<<70,49,55>>, <<102,49,55>>>>,
    <<<<70,49,56>>, <<102,49,56>>>>,
    <<<<70,49,57>>, <<102,49,57>>>>,
    <<<<70,50,48>>, <<102,50,48>>>>,
    <<<<70,50,49>>, <<102,50,49>>>>,
    <<<<70,50,50>>, <<102,50,50>>>>,
    <<<<70,50,51>>, <<102,50,51>>>>,
    <<<<70,50,52>>, <<102,50,52>>>> }

\* KeyMapper.MODIFIER_KEYS: ctrl, alt, shift, win, fn
MODIFIER_KEYS ==
  {<<99,116,114,108>>, <<97,108,116>>, <<115,104,105,102,116>>, <<119,105,110>>,
   <<102,110>>}

\* KeyboardLayoutManager.LAYOUTS[code]['transformations'] as pairs of code
\* points; 'us' and every unknown code have none
Transformations(layout_code) ==
  IF layout_code = "de"
  THEN {<<121, 122>>, <<122, 121>>, <<45, 223>>, <<91, 252>>, <<93, 43>>, <<59, 246>>, <<39, 228>>}
  ELSE IF layout_code = "fr"
  THEN {<<97, 113>>, <<113, 97>>, <<119, 122>>, <<122, 119>>, <<109, 44>>, <<44, 109>>}
  ELSE {}

\* mutant: a token is kept as it was written
MapKeyAsWritten(key) == key

\* KeyMapper.map_key: KEY_MAPPINGS.get(key.upper(), key.lower())
map_key(key) ==
  LET hits == {m \in KEY_MAPPINGS : m[1] = Upper(key)}
  IN IF hits = {} THEN Lower(key) ELSE (CHOOSE m \in hits : TRUE)[2]

\* KeyMapper.is_modifier: key.lower() in MODIFIER_KEYS
is_modifier(key) == Lower(key) \in MODIFIER_KEYS

is_key(key) == ~is_modifier(key)

\* KeyboardLayoutManager.transform_key: a table lookup for one-character keys
transform_key(layout_code, key) ==
  IF Len(key) = 1
  THEN LET hits == {t \in Transformations(layout_code) : t[1] = LowerChar(key[1])}
       IN IF hits = {} THEN key ELSE <<(CHOOSE t \in hits : TRUE)[2]>>
  ELSE key

transform_keys(layout_code, keys) ==
  [i \in 1..Len(keys) |-> transform_key(layout_code, keys[i])]

\* mutant: the URL prefixes are looked for as they are written, in lower case
IsUrlExactCase(text) ==
  \/ StartsWith(text, <<104,116,116,112,58,47,47>>)
  \/ StartsWith(text, <<104,116,116,112,115,58,47,47>>)
  \/ StartsWith(text, <<119,119,119,46>>)
  \/ StartsWith(text, <<102,116,112,58,47,47>>)

\* CommandParser._is_url: the lower-cased text starts with http://, https://,
\* www. or ftp://
IsUrl(text) ==
  LET url_lower == Lower(text)
  IN \/ StartsWith(url_lower, <<104,116,116,112,58,47,47>>)
     \/ StartsWith(url_lower, <<104,116,116,112,115,58,47,47>>)
     \/ StartsWith(url_lower, <<119,119,119,46>>)
     \/ StartsWith(url_lower, <<102,116,112,58,47,47>>)

\* None in a string field and in delay_ms
NoText == <<-1>>

NoDelay == -1

\* KeyCommand(command_type, raw_input, modifiers, keys) with the optional
\* fields at their default None
KeyCommand(command_type, raw_input, modifiers, keys) ==
  [command_type |-> command_type, raw_input |-> raw_input,
   modifiers |-> modifiers, keys |-> keys, text_content |-> NoText,
   execute_path |-> NoText, url |-> NoText, file_path |-> NoText,
   cmd_command |-> NoText, delay_ms |-> NoDelay]

\* parse returned cmd
Returned(cmd) == [exc |-> "none", cmd |-> cmd]

\* parse raised exc
Raised(exc) == [exc |-> exc, cmd |-> KeyCommand("none", <<>>, <<>>, <<>>)]

\* [map_key(k.strip()) for k in s.split('+') if k.strip()]
MappedKeys(s) ==
  LET stripped == [i \in 1..Len(Split(s, 43)) |-> Strip(Split(s, 43)[i])]
      nonEmpty(k) == k # <<>>
      kept == SelectSeq(stripped, nonEmpty)
  IN [i \in 1..Len(kept) |-> map_key(kept[i])]

\* mutant: no line is taken for a delay
IsDelayNever(raw_command) == FALSE

\* raw_command.upper().startswith('D') and len(raw_command) > 1 and
\* raw_command[1:].isdigit()
IsDelay(raw_command) ==
  /\ StartsWith(Upper(raw_command), <<68>>)
  /\ Len(raw_command) > 1
  /\ IsDigit(Slice(raw_command, 1, Len(raw_command)))

\* mutant: the text ends at the second quote and is never taken for a URL
ParseQuotedToSecond(raw_command) ==
  LET first_quote  == Index(raw_command, 34)
      after        == Slice(raw_command, first_quote + 1, Len(raw_command))
      prefix_keys  == MappedKeys(Slice(raw_command, 0, first_quote))
  IN [KeyCommand("text", raw_command, SelectSeq(prefix_keys, is_modifier),
                 SelectSeq(prefix_keys, is_key))
        EXCEPT !.text_content = Slice(after, 0, Index(after, 34))]

\* the quoted-text rule: '"' in raw_command, and its first and last
\* occurrence differ
ParseQuoted(raw_command) ==
  LET first_quote  == Index(raw_command, 34)
      last_quote   == RIndex(raw_command, 34)
      prefix       == Strip(RStripChar(Slice(raw_command, 0, first_quote), 43))
      text_content == Slice(raw_command, first_quote + 1, last_quote)
      prefix_keys  == IF prefix # <<>> THEN MappedKeys(prefix) ELSE <<>>
  IN IF prefix = <<>> /\ IsUrl(text_content)
     THEN [KeyCommand("url", raw_command, <<>>, <<>>) EXCEPT !.url = text_content]
     ELSE [KeyCommand("text", raw_command, SelectSeq(prefix_keys, is_modifier),
                      SelectSeq(prefix_keys, is_key))
             EXCEPT !.text_content = text_content]

\* the default rule: the '+'-separated keys, mapped and layout-transformed
ParseKeystroke(raw_command, layout_code) ==
  LET processed_keys == transform_keys(layout_code, MappedKeys(raw_command))
  IN KeyCommand("keystroke", raw_command, SelectSeq(processed_keys, is_modifier),
                SelectSeq(processed_keys, is_key))

\* CommandParser.parse(raw_command), the parser made with layout_code
Parse(raw, layout_code) ==
  LET raw_command == Strip(raw)
      n           == Len(raw_command)
  IN IF raw_command \in READY_SIGNALS
     THEN Returned(KeyCommand("ready_signal", raw_command, <<>>, <<>>))
     ELSE IF IsDelay(raw_command)
     THEN LET delay_ms == ToInt(Slice(raw_command, 1, n))
          IN IF delay_ms.exc # "none" THEN Raised(delay_ms.exc)
             ELSE Returned([KeyCommand("delay", raw_command, <<>>, <<>>)
                              EXCEPT !.delay_ms = delay_ms.value])
     ELSE IF StartsWith(raw_command, <<60>>) /\ EndsWith(raw_command, <<62>>)
     THEN Returned([KeyCommand("cmd", raw_command, <<>>, <<>>)
                      EXCEPT !.cmd_command = Strip(Slice(raw_command, 1, -1))])
     ELSE IF StartsWith(Upper(raw_command), <<69,88,69,67,85,84,69,43>>)
     THEN Returned([KeyCommand("execute", raw_command, <<>>, <<>>)
                      EXCEPT !.execute_path = Strip(Slice(raw_command, 8, n))])
     ELSE IF /\ StartsWith(raw_command, <<124>>)
             /\ EndsWith(raw_command, <<124>>)
             /\ n > 2
     THEN LET content == Slice(raw_command, 1, -1)
          IN IF IsUrl(content)
             THEN Returned([KeyCommand("url", raw_command, <<>>, <<>>)
                              EXCEPT !.url = content])
             ELSE Returned([KeyCommand("file_path", raw_command, <<>>, <<>>)
                              EXCEPT !.file_path = content])
     ELSE IF 34 \in Range(raw_command)
             /\ Index(raw_command, 34) # RIndex(raw_command, 34)
     THEN Returned(ParseQuoted(raw_command))
     ELSE Returned(ParseKeystroke(raw_command, layout_code))

\* ------------------------------------------------ CommandParser (kb_handler)
\* the quoted-text rule of the serial parser: parts = raw_command.split('"', 2),
\* the prefix is parts[0].rstrip('+') and the text is parts[1]
ParseQuotedV2(raw_command) ==
  LET first_quote  == Index(raw_command, 34)
      after        == Slice(raw_command, first_quote + 1, Len(raw_command))
      prefix       == RStripChar(Slice(raw_command, 0, first_quote), 43)
      text_content == IF 34 \in Range(after)
                      THEN Slice(after, 0, Index(after, 34)) ELSE after
      prefix_keys  == IF prefix # <<>> THEN MappedKeys(prefix) ELSE <<>>
  IN [KeyCommand("text", raw_command, SelectSeq(prefix_keys, is_modifier),
                 SelectSeq(prefix_keys, is_key))
        EXCEPT !.text_content = text_content]

\* kb_handler.CommandParser.parse(raw_command), the parser made with
\* layout_code: ready signal, EXECUTE+, quoted text, keystroke
ParseV2(raw, layout_code) ==
  LET raw_command == Strip(raw)
  IN IF raw_command \in READY_SIGNALS
     THEN Returned(KeyCommand("ready_signal", raw_command, <<>>, <<>>))
     ELSE IF StartsWith(Upper(raw_command), <<69,88,69,67,85,84,69,43>>)
     THEN Returned([KeyCommand("execute", raw_command, <<>>, <<>>)
                      EXCEPT !.execute_path =
                        Strip(Slice(raw_command, 8, Len(raw_command)))])
     ELSE IF 34 \in Range(raw_command)
     THEN Returned(ParseQuotedV2(raw_command))
     ELSE Returned(ParseKeystroke(raw_command, layout_code))

\* --------------------------------------------- KeyExecutor (command_handler)
\* the calls into the platform that can raise, one name per call site:
\* time.sleep, os.startfile, subprocess.Popen, webbrowser.open,
\* kb.press_and_release of a chord, kb.write, and in _execute_fn_combination
\* kb.press('fn'), kb.press_and_release in the try block, kb.release('fn'),
\* keybd_event and kb.press_and_release in the fallback; "missing" and
\* "no_terminal" stand for os.path.exists and shutil.which finding nothing
Primitives ==
  {"sleep", "startfile", "popen", "webbrowser", "missing", "no_terminal",
   "press_and_release", "write", "press_fn", "fn_key_press", "release_fn",
   "keybd_event", "fallback_press"}

\* os.name with os.uname().sysname: Windows, macOS, Linux
Platforms == {"nt", "Darwin", "Linux"}

\* the keys of FN_VK_MAPPING: f5 f6 f7 f8 f10 f11 f12 (every code is non-zero)
FN_VK_MAPPING ==
  {<<102,53>>, <<102,54>>, <<102,55>>, <<102,56>>, <<102,49,48>>,
   <<102,49,49>>, <<102,49,50>>}

\* 'fn'
FnKey == <<102,110>>

\* return success, message
Ret(success, message) ==
  [exc |-> FALSE, success |-> success, message |-> message, fn_held |-> FALSE]

\* an exception leaves the function
Exc == [exc |-> TRUE, success |-> FALSE, message |-> "", fn_held |-> FALSE]

\* mutant: execute has no except clause
CatchNothing(r) == r

\* except Exception as e: return False, f"Error: {str(e)}"
Catch(r) == IF r.exc THEN [Ret(FALSE, "Error") EXCEPT !.fn_held = r.fn_held] ELSE r

_execute_delay(delay_ms, e) ==
  IF "sleep" \in e.faults THEN Ret(FALSE, "Delay failed") ELSE Ret(TRUE, "Delayed")

\* os.startfile on Windows with Popen as its fallback, Popen elsewhere
_execute_program(path, e) ==
  IF e.os = "nt" /\ "startfile" \notin e.faults THEN Ret(TRUE, "Executed")
  ELSE IF "popen" \in e.faults THEN Ret(FALSE, "Execute failed")
  ELSE Ret(TRUE, "Executed")

_execute_url(url, e) ==
  IF "webbrowser" \in e.faults THEN Ret(FALSE, "URL open failed")
  ELSE Ret(TRUE, "Opened URL")

_execute_file_path(path, e) ==
  IF "missing" \in e.faults THEN Ret(FALSE, "Path not found")
  ELSE IF e.os = "nt" /\ "startfile" \in e.faults THEN Ret(FALSE, "Path open failed")
  ELSE IF e.os # "nt" /\ "popen" \in e.faults THEN Ret(FALSE, "Path open failed")
  ELSE Ret(TRUE, "Opened")

\* a console on Windows, Terminal on macOS, else the first terminal program
\* shutil.which finds, and nothing at all when it finds none
_execute_cmd(cmd_command, e) ==
  LET launches == e.os \in {"nt", "Darwin"} \/ "no_terminal" \notin e.faults
  IN IF launches /\ "popen" \in e.faults THEN Ret(FALSE, "CMD failed")
     ELSE Ret(TRUE, "CMD executed")

\* no try of its own: what raises here leaves the function; the chord is
\* followed by time.sleep(0.001)
_execute_text(cmd, e) ==
  IF /\ cmd.modifiers # <<>> \/ cmd.keys # <<>>
     /\ {"press_and_release", "sleep"} \cap e.faults # {}
  THEN Exc
  ELSE IF cmd.text_content \notin {NoText, <<>>} /\ "write" \in e.faults THEN Exc
  ELSE IF cmd.text_content = NoText THEN Exc
  ELSE Ret(TRUE, "Typed")

IsNotFn(k) == k # FnKey

\* try: press fn, press and release each other key, release fn; the bare
\* except: keybd_event for a single mapped key, else each key on its own
_execute_fn_combination(keys, e) ==
  LET fn_keys == SelectSeq(keys, IsNotFn)
      tried   == IF "press_fn" \in e.faults THEN "raised"
                 ELSE IF fn_keys # <<>> /\ "fn_key_press" \in e.faults THEN "held"
                 ELSE IF "release_fn" \in e.faults THEN "held"
                 ELSE "done"
      held    == tried = "held"
  IN IF tried = "done" THEN Ret(TRUE, "Pressed: fn+")
     ELSE IF Len(fn_keys) = 1 /\ fn_keys[1] \in FN_VK_MAPPING
     THEN IF e.os # "nt" \/ "keybd_event" \in e.faults
          THEN [Exc EXCEPT !.fn_held = held]
          ELSE [Ret(TRUE, "Pressed (VK)") EXCEPT !.fn_held = held]
     ELSE IF fn_keys # <<>> /\ "fallback_press" \in e.faults
     THEN [Exc EXCEPT !.fn_held = held]
     ELSE [Ret(TRUE, "Pressed (fallback)") EXCEPT !.fn_held = held]

\* mutant: the chord is pressed without looking whether it has a key
ExecuteKeystrokeUnchecked(cmd, e) ==
  IF FnKey \in Range(cmd.modifiers \o cmd.keys)
  THEN _execute_fn_combination(cmd.modifiers \o cmd.keys, e)
  ELSE IF "press_and_release" \in e.faults THEN Exc
  ELSE Ret(TRUE, "Pressed")

_execute_keystroke(cmd, e) ==
  LET all_keys == cmd.modifiers \o cmd.keys
  IN IF all_keys = <<>> THEN Ret(FALSE, "No keys")
     ELSE IF FnKey \in Range(all_keys) THEN _execute_fn_combination(all_keys, e)
     ELSE IF "press_and_release" \in e.faults THEN Exc
     ELSE Ret(TRUE, "Pressed")

\* the branches of KeyExecutor.execute inside its try
ExecuteBranch(cmd, e) ==
  IF cmd.command_type = "ready_signal" THEN Ret(TRUE, "Ready signal")
  ELSE IF cmd.command_type = "delay" THEN _execute_delay(cmd.delay_ms, e)
  ELSE IF cmd.command_type = "execute" THEN _execute_program(cmd.execute_path, e)
  ELSE IF cmd.command_type = "url" THEN _execute_url(cmd.url, e)
  ELSE IF cmd.command_type = "file_path" THEN _execute_file_path(cmd.file_path, e)
  ELSE IF cmd.command_type = "cmd" THEN _execute_cmd(cmd.cmd_command, e)
  ELSE IF cmd.command_type = "text" THEN _execute_text(cmd, e)
  ELSE IF cmd.command_type = "keystroke" THEN _execute_keystroke(cmd, e)
  ELSE Ret(FALSE, "Unknown type")

\* KeyExecutor.execute(command) on a platform e
Execute(cmd, e) == Catch(ExecuteBranch(cmd, e))

\* ----------------------------------------------------- TelemetryBuffer
\* TelemetryBuffer(alpha=0.3, max_change_per_sec=10.0): alpha as a fraction
AlphaNum == 3

AlphaDen == 10

max_change_per_sec == 10

\* floats are kept as whole numbers of 1/Scale percent, every product
\* rounded to the nearest of them; the clock counts 1/TicksPerSec seconds
Scale == 100

TicksPerSec == 10

Abs(x) == IF x < 0 THEN 0 - x ELSE x

\* x / d rounded to the nearest whole number
RoundDiv(x, d) == (2 * x + d) \div (2 * d)

\* f"{value:.1f}": the value in tenths of a percent, as it is transmitted
Shown(value) == RoundDiv(value * 10, Scale)

\* mutant: the smoothed value never follows the sample
SmoothFrozen(new, old) == old

\* self.alpha*new+(1-self.alpha)*old
Smooth(new, old) == RoundDiv(AlphaNum * new + (AlphaDen - AlphaNum) * old, AlphaDen)

\* TelemetryBuffer._limit_change(new_val, old_val, dt), dt in ticks
_limit_change(new_val, old_val, dt) ==
  LET max_change == (max_change_per_sec * Scale * dt) \div TicksPerSec
      diff       == new_val - old_val
  IN IF Abs(diff) > max_change
     THEN old_val + (IF diff > 0 THEN max_change ELSE 0 - max_change)
     ELSE new_val

\* mutant: the first sample is rate-limited from zero like any other
SeededClamped(raw, dt) ==
  [none |-> FALSE, cpu |-> _limit_change(raw.cpu, 0, dt),
   gpu |-> _limit_change(raw.gpu, 0, dt), ram |-> _limit_change(raw.ram, 0, dt)]

\* if self.cpu is None: self.cpu,self.gpu,self.ram=cpu,gpu,ram
Seeded(raw, dt) ==
  [none |-> FALSE, cpu |-> raw.cpu, gpu |-> raw.gpu, ram |-> raw.ram]

\* TelemetryBuffer(): cpu, gpu and ram are None
FreshBuffer == [none |-> TRUE, cpu |-> 0, gpu |-> 0, ram |-> 0]

\* TelemetryBuffer.update(cpu, gpu, ram) with dt = now - self.last_update:
\* the buffer after the call, whose three values are what it returns
Update(tb, raw, dt) ==
  IF tb.none THEN Seeded(raw, dt)
  ELSE [none |-> FALSE,
        cpu |-> _limit_change(Smooth(raw.cpu, tb.cpu), tb.cpu, dt),
        gpu |-> _limit_change(Smooth(raw.gpu, tb.gpu), tb.gpu, dt),
        ram |-> _limit_change(Smooth(raw.ram, tb.ram), tb.ram, dt)]

\* ----------------------------------------------------------------- state
VARIABLES
  variant,         \* "ble" | "serial" | "legacy" | "frame": which code runs
  pc,              \* position of the session thread
  uiPc,            \* front-end: "idle" | "started" | "waiting" | "stopped"
  uiExec,          \* the front-end thread is inside KeyExecutor.execute
  running,         \* self.running
  is_ready,        \* self.is_ready
  linkOpen,        \* client.is_connected / serial_connection.is_open
  notifying,       \* start_notify is in force on the client
  device_address,  \* self.device_address is set
  message_buffer,  \* self.message_buffer (code points)
  due,             \* time.time() - last_telemetry >= interval
  events,          \* signals emitted and executor calls of the last step
  postponed,       \* history: ticks a due telemetry send has waited on commands
  readySeen,       \* history: a ready line arrived on this connection
  readyEmits,      \* history: ready_received signals on this connection
  conns,           \* history: connections established by this thread
  cause,           \* history: why _async_run is back at its loop head
  slept,           \* history: sleep(2) ran since the last scan
  lastSend,        \* history: outcome of the last telemetry write
  cmdFailed,       \* history: a command of this connection failed or raised
  has_command_handler, \* self.has_command_handler
  stream,          \* frame reader: the whole byte stream
  rest,            \* frame reader: bytes not yet delivered
  lines,           \* frame reader: lines emitted so far
  raw_command,     \* parser: the line handed to CommandParser.parse
  command,         \* parser, executor: the KeyCommand
  env,             \* executor: what the platform's primitives do
  result,          \* executor: what KeyExecutor.execute gave back
  telemetry_buffer,\* smoother: the TelemetryBuffer object
  sample           \* smoother: the arguments and the clock of the last update

vars == <<variant, pc, uiPc, uiExec, running, is_ready, linkOpen, notifying,
          device_address, message_buffer, due, events, postponed, readySeen,
          readyEmits, conns, cause, slept, lastSend, cmdFailed,
          has_command_handler, stream, rest, lines, raw_command, command, env,
          result, telemetry_buffer, sample>>


\* ------------------------------------------------------ line classification
\* the accepted ready literals of the running variant
Signals(v) == IF v = "legacy" THEN {LegacyReady} ELSE READY_SIGNALS

\* mutant: the executor is reached without the is_ready gate
DispatchUngated(line, ready, signals) ==
  IF line \in signals /\ ~ready THEN "latch" ELSE "process"

\* mutant: the latch is re-armed by every ready line
DispatchRelatch(line, ready, signals) ==
  IF line \in signals THEN "latch" ELSE IF ready THEN "process" ELSE "ignore"

\* if line in READY_SIGNALS and not is_ready: ... elif is_ready: ...
Dispatch(line, ready, signals) ==
  IF line \in signals /\ ~ready THEN "latch"
  ELSE IF ready THEN "process"
  ELSE "ignore"

\* t occurs in s as a substring
Contains(s, t) ==
  \E i \in 0..(Len(s) - Len(t)) : SubSeq(s, i + 1, i + Len(t)) = t

\* without command_handler: if "Ready" in line and not self.is_ready: ...
\* and no other line has any effect
DispatchBare(line, ready) ==
  IF Contains(line, <<82,101,97,100,121>>) /\ ~ready THEN "latch" ELSE "ignore"

\* mutant: a ready literal is handed to the executor like any other line
ReachesExecutorAlways(message, signals) == TRUE

\* _process_command / process_keystroke: a ready literal returns before the
\* executor is called
ReachesExecutor(message, signals) == Strip(message) \notin signals

Event(sig, line, ready, seen) ==
  [sig |-> sig, line |-> line, ready |-> ready, seen |-> seen, res |-> "none"]

\* what one call of _process_command can come to: the executor returns
\* (True, ...) or (False, ...), or parse raises
Outcomes == {"ok", "fail", "raise"}

\* the signal _process_command ends with: command_executed(raw_input, success,
\* result), or error_occurred("Command error: ...") from its except clause
Report(line, ready, seen, res) ==
  [sig |-> IF res = "raise" THEN "error_occurred" ELSE "command_executed",
   line |-> line, ready |-> ready, seen |-> seen, res |-> res]

\* mutant: a command that fails or raises ends the ready state
ReadyAfterCommandAbort(ready, res) == ready /\ res = "ok"

\* _process_command assigns nothing to is_ready, whatever the outcome
ReadyAfterCommand(ready, res) == ready

\* mutant: a line is reported only once the session is ready
MessageReceivedWhenReady(evs, line, ready, seen) ==
  IF ready THEN Append(evs, Event("message_received", line, ready, seen)) ELSE evs

\* self.message_received.emit(line), for every non-empty line
MessageReceived(evs, line, ready, seen) ==
  Append(evs, Event("message_received", line, ready, seen))

\* _process_command(message) once the ready literal was ruled out: parse,
\* then execute and command_executed, or the except clause
ProcessCommand(evs, line, ready, seen, res) ==
  IF res = "raise" THEN Append(evs, Report(line, ready, seen, res))
  ELSE Append(Append(evs, Event("execute", line, ready, seen)),
              Report(line, ready, seen, res))

\* a command of d ticks runs on the thread that sends telemetry; k of them
\* fall after the send became due when it was not yet due at the start
Postpone(t, d, k) ==
  IF t.due
  THEN [due |-> TRUE, postponed |-> Min(t.postponed + d, MaxDelay + 1)]
  ELSE [due |-> k > 0, postponed |-> k]

\* one non-empty line of the session: message_received, then latch or command
HandleLine(st, line, signals, d, k, o) ==
  LET kind == IF st.handler THEN Dispatch(line, st.ready, signals)
              ELSE DispatchBare(line, st.ready)
      seen == st.seen \/ line \in signals
      msg  == MessageReceived(st.evs, line, st.ready, st.seen)
  IN IF kind = "latch"
     THEN [st EXCEPT !.ready = TRUE, !.seen = seen, !.emits = Min(st.emits + 1, 2),
                     !.evs = Append(msg, Event("ready_received", line, TRUE, seen))]
     ELSE IF kind = "process" /\ ReachesExecutor(line, signals)
     THEN LET t == IF o = "raise"
                   THEN [due |-> st.due, postponed |-> st.postponed]
                   ELSE Postpone([due |-> st.due, postponed |-> st.postponed], d, k)
          IN [st EXCEPT !.seen = seen, !.due = t.due, !.postponed = t.postponed,
                        !.ready = ReadyAfterCommand(st.ready, o),
                        !.failed = st.failed \/ o # "ok",
                        !.evs = ProcessCommand(msg, line, st.ready, st.seen, o)]
     ELSE [st EXCEPT !.seen = seen, !.evs = msg]

RECURSIVE HandleLinesLastFirst(_, _, _, _, _)
\* mutant: the lines of one notification are handled last line first
HandleLinesLastFirst(st, signals, d, k, o) ==
  IF ~HasNewline(st.buf) THEN st
  ELSE LET sp    == SplitLine(st.buf)
           line  == Strip(sp.line)
           later == HandleLinesLastFirst([st EXCEPT !.buf = sp.rest],
                                         signals, d, k, o)
       IN IF line = <<>> THEN later
          ELSE HandleLine(later, line, signals, d, k, o)

RECURSIVE HandleLines(_, _, _, _, _)
\* while '\n' in self.message_buffer: split, strip, skip empty, handle
HandleLines(st, signals, d, k, o) ==
  IF ~HasNewline(st.buf) THEN st
  ELSE LET sp   == SplitLine(st.buf)
           line == Strip(sp.line)
           nxt  == [st EXCEPT !.buf = sp.rest]
       IN IF line = <<>> THEN HandleLines(nxt, signals, d, k, o)
          ELSE HandleLines(HandleLine(nxt, line, signals, d, k, o),
                           signals, d, k, o)

\* BluetoothThread._notification_handler(sender, data); a chunk that fails
\* to decode is dropped whole and reported as a decode error
NotificationHandler(st, data, d, k, o) ==
  LET dec == Decode(data)
  IN IF ~dec.ok
     THEN [st EXCEPT !.evs = <<Event("error_occurred", <<>>, st.ready, st.seen)>>]
     ELSE HandleLines([st EXCEPT !.buf = st.buf \o dec.chars, !.evs = <<>>],
                      READY_SIGNALS, d, k, o)

\* the notification hands a line to _process_command
RunsCommand(st, data) ==
  \E e \in Range(NotificationHandler(st, data, 0, 0, "ok").evs) :
    e.sig = "execute"

\* the lines of the message_received signals among evs, in order
RECURSIVE MessageLines(_)
MessageLines(evs) ==
  IF evs = <<>> THEN <<>>
  ELSE IF Head(evs).sig = "message_received"
       THEN <<Head(evs).line>> \o MessageLines(Tail(evs))
       ELSE MessageLines(Tail(evs))

\* the lines handed to the executor among evs, in order
RECURSIVE ExecutedLines(_)
ExecutedLines(evs) ==
  IF evs = <<>> THEN <<>>
  ELSE IF Head(evs).sig = "execute"
       THEN <<Head(evs).line>> \o ExecutedLines(Tail(evs))
       ELSE ExecutedLines(Tail(evs))

\* the session fields the handler reads and writes
Session ==
  [buf |-> message_buffer, ready |-> is_ready, seen |-> readySeen,
   emits |-> readyEmits, due |-> due, postponed |-> postponed,
   failed |-> cmdFailed, handler |-> has_command_handler, evs |-> <<>>]

\* ------------------------------------------------------------- input sets
\* "Ready!\n"
ReadyChunk == <<82,101,97,100,121,33,10>>

\* "CYD Deck Ready!\n"
LegacyReadyChunk == <<67,89,68,32,68,101,99,107,32,82,101,97,100,121,33,10>>

\* notification payloads: a ready line, a command line "a\n", a partial line
\* "a", a bare newline, and the two halves of "é\n" (C3 | A9 0A)
Chunks == {ReadyChunk, <<97, 10>>, <<97>>, <<10>>, <<195>>, <<169, 10>>}

\* what readline() can return: a ready line of either spelling, a command
\* line, a line cut by the read timeout, an empty line, an invalid byte
SerialReads == {ReadyChunk, LegacyReadyChunk, <<97, 10>>, <<97>>, <<10>>, <<169, 10>>}

\* text of the front-end's test field: a command, or a ready literal
TestInputs == {<<97>>, <<82,101,97,100,121,33>>}

Durations == 0..MaxDelay

\* ------------------------------------------------------------------- Init
Init ==
  /\ variant \in {"ble", "serial", "legacy"}
  /\ pc = "new"
  /\ uiPc = "idle"
  /\ uiExec = FALSE
  /\ running = FALSE
  /\ is_ready = FALSE
  /\ linkOpen = FALSE
  /\ notifying = FALSE
  /\ device_address = FALSE
  /\ message_buffer = <<>>
  /\ due = TRUE
  /\ events = <<>>
  /\ postponed = 0
  /\ readySeen = FALSE
  /\ readyEmits = 0
  /\ conns = 0
  /\ cause = "start"
  /\ slept = FALSE
  /\ lastSend = "none"
  /\ cmdFailed = FALSE
  /\ has_command_handler = TRUE   \* command_handler and keyboard import
  /\ stream = <<>>
  /\ rest = <<>>
  /\ lines = <<>>
  /\ raw_command = <<>>
  /\ command = "none"
  /\ env = "none"
  /\ result = "none"
  /\ telemetry_buffer = "none"
  /\ sample = "none"

\* the variables of the function specifications
fnVars == <<raw_command, command, env, result, telemetry_buffer, sample>>

\* what no action of the session threads assigns
frameVars == <<stream, rest, lines, has_command_handler, fnVars>>

\* --------------------------------------------------- BluetoothThread (BLE)
\* mutant: the flag survives the end of a connection
ReadyAfterLoopKept(ready) == ready

\* self.is_ready=False at the end of _communication_loop
ReadyAfterLoop(ready) == FALSE

\* except Exception in _async_run: report, sleep(2), next iteration
AfterError == "loop"

\* mutant: a failed attempt leaves the loop instead of continuing it
AfterFailedAttemptBreak == "done"

\* _scan_and_connect returned False: await asyncio.sleep(2); continue
AfterFailedAttempt == "loop"

\* run(): new event loop, self.running=True, then _async_run
BleRunBegin ==
  /\ variant = "ble" /\ pc = "start"
  /\ running' = TRUE
  /\ pc' = "loop"
  /\ events' = <<>>
  /\ UNCHANGED <<variant, uiPc, uiExec, is_ready, linkOpen, notifying,
                 device_address, message_buffer, due, postponed, readySeen,
                 readyEmits, conns, cause, slept, lastSend, cmdFailed, frameVars>>

\* while self.running: in _async_run; the loop's end is the end of run()
BleLoop ==
  /\ variant = "ble" /\ pc = "loop"
  /\ pc' = IF running THEN "scan" ELSE "done"
  /\ events' = <<>>
  /\ UNCHANGED <<variant, uiPc, uiExec, running, is_ready, linkOpen, notifying,
                 device_address, message_buffer, due, postponed, readySeen,
                 readyEmits, conns, cause, slept, lastSend, cmdFailed, frameVars>>

\* _scan_and_connect, BleakScanner.discover: it raises, or it returns with or
\* without a device of the wanted name
BleScan ==
  /\ variant = "ble" /\ pc = "scan"
  /\ \E outcome \in {"raise", "found", "absent"} :
       /\ device_address' = (device_address \/ outcome = "found")
       /\ IF outcome = "raise" \/ ~device_address'
          THEN /\ pc' = "backoff"
               /\ events' = <<Event("error_occurred", <<>>, is_ready, readySeen)>>
          ELSE /\ pc' = "connect"
               /\ events' = IF outcome = "found"
                            THEN <<Event("device_found", <<>>, is_ready, readySeen)>>
                            ELSE <<>>
  /\ slept' = FALSE
  /\ UNCHANGED <<variant, uiPc, uiExec, running, is_ready, linkOpen, notifying,
                 message_buffer, due, postponed, readySeen, readyEmits, conns,
                 cause, lastSend, cmdFailed, frameVars>>

\* self.client=BleakClient(...); await self.client.connect(); is_connected?
BleConnect ==
  /\ variant = "ble" /\ pc = "connect"
  /\ \E outcome \in {"raise", "down", "up"} :
       IF outcome = "up"
       THEN /\ conns < MaxConns
            /\ linkOpen' = TRUE
            /\ conns' = conns + 1
            /\ readySeen' = FALSE
            /\ readyEmits' = 0
            /\ cmdFailed' = FALSE
            /\ pc' = "notify"
            /\ events' = <<>>
       ELSE /\ linkOpen' = FALSE
            /\ pc' = "backoff"
            /\ events' = <<Event("error_occurred", <<>>, is_ready, readySeen)>>
            /\ UNCHANGED <<conns, readySeen, readyEmits, cmdFailed>>
  /\ notifying' = FALSE
  /\ UNCHANGED <<variant, uiPc, uiExec, running, is_ready, device_address,
                 message_buffer, due, postponed, cause, slept, lastSend,
                 frameVars>>

\* sleep(0.5); start_notify(TX_CHAR_UUID, handler); connected.emit()
BleStartNotify ==
  /\ variant = "ble" /\ pc = "notify"
  /\ \E ok \in BOOLEAN :
       IF ok /\ linkOpen
       THEN /\ notifying' = TRUE
            /\ pc' = "settle"
            /\ events' = <<Event("connected", <<>>, is_ready, readySeen)>>
       ELSE /\ notifying' = FALSE
            /\ pc' = "backoff"
            /\ events' = <<Event("error_occurred", <<>>, is_ready, readySeen)>>
  /\ UNCHANGED <<variant, uiPc, uiExec, running, is_ready, linkOpen,
                 device_address, message_buffer, due, postponed, readySeen,
                 readyEmits, conns, cause, slept, lastSend, cmdFailed, frameVars>>

\* sleep(0.3); return True; _async_run enters _communication_loop
BleSettle ==
  /\ variant = "ble" /\ pc = "settle"
  /\ pc' = "comm"
  /\ events' = <<>>
  /\ UNCHANGED <<variant, uiPc, uiExec, running, is_ready, linkOpen, notifying,
                 device_address, message_buffer, due, postponed, readySeen,
                 readyEmits, conns, cause, slept, lastSend, cmdFailed, frameVars>>

\* mutant: telemetry goes out whenever the interval has passed, ready or not
SendDueUnready(elapsed, ready) == elapsed

\* if time.time()-self.last_telemetry>=0.2 and self.is_ready: (0.01 in the
\* serial thread); elapsed says that the interval has passed
SendDue(elapsed, ready) == elapsed /\ ready

\* one iteration of _communication_loop: the telemetry send when due and
\* ready (_send_telemetry swallows every exception), then sleep(0.01)
BleCommIter ==
  /\ variant = "ble" /\ pc = "comm"
  /\ IF running /\ linkOpen
     THEN /\ pc' = "comm"
          /\ IF SendDue(due, is_ready)
             THEN \E sent \in BOOLEAN, later \in BOOLEAN :
                    /\ lastSend' = IF sent THEN "ok" ELSE "write_failed"
                    /\ events' = IF sent
                                 THEN <<Event("telemetry_sent", <<>>, is_ready, readySeen)>>
                                 ELSE <<>>
                    /\ due' = later
                    /\ postponed' = 0
             ELSE \E later \in BOOLEAN :
                    /\ due' = (due \/ later)
                    /\ events' = <<>>
                    /\ UNCHANGED <<lastSend, postponed>>
     ELSE /\ pc' = "exit"
          /\ events' = <<>>
          /\ UNCHANGED <<due, lastSend, postponed>>
  /\ UNCHANGED <<variant, uiPc, uiExec, running, is_ready, linkOpen, notifying,
                 device_address, message_buffer, readySeen, readyEmits, conns,
                 cause, slept, cmdFailed, frameVars>>

\* after the loop: if the client is connected, await stop_notify (may raise)
BleLoopExit ==
  /\ variant = "ble" /\ pc = "exit"
  /\ IF linkOpen
     THEN \E ok \in BOOLEAN :
            IF ok THEN notifying' = FALSE /\ pc' = "disc"
                  ELSE notifying' = notifying /\ pc' = "except"
     ELSE notifying' = notifying /\ pc' = "reset"
  /\ events' = <<>>
  /\ UNCHANGED <<variant, uiPc, uiExec, running, is_ready, linkOpen,
                 device_address, message_buffer, due, postponed, readySeen,
                 readyEmits, conns, cause, slept, lastSend, cmdFailed, frameVars>>

\* await self.client.disconnect() (may raise)
BleDisconnect ==
  /\ variant = "ble" /\ pc = "disc"
  /\ \E ok \in BOOLEAN :
       IF ok THEN linkOpen' = FALSE /\ pc' = "reset"
             ELSE linkOpen' = linkOpen /\ pc' = "except"
  /\ events' = <<>>
  /\ UNCHANGED <<variant, uiPc, uiExec, running, is_ready, notifying,
                 device_address, message_buffer, due, postponed, readySeen,
                 readyEmits, conns, cause, slept, lastSend, cmdFailed, frameVars>>

\* self.is_ready=False; self.disconnected.emit(); back in _async_run
BleReset ==
  /\ variant = "ble" /\ pc = "reset"
  /\ is_ready' = ReadyAfterLoop(is_ready)
  /\ cmdFailed' = FALSE
  /\ postponed' = 0
  /\ cause' = "ended"
  /\ pc' = "loop"
  /\ events' = <<Event("disconnected", <<>>, is_ready', readySeen)>>
  /\ UNCHANGED <<variant, uiPc, uiExec, running, linkOpen, notifying,
                 device_address, message_buffer, due, readySeen, readyEmits,
                 conns, slept, lastSend, frameVars>>

\* except Exception in _async_run: error_occurred, sleep(2)
BleExcept ==
  /\ variant = "ble" /\ pc = "except"
  /\ slept' = TRUE
  /\ cause' = "error"
  /\ pc' = AfterError
  /\ events' = <<Event("error_occurred", <<>>, is_ready, readySeen)>>
  /\ UNCHANGED <<variant, uiPc, uiExec, running, is_ready, linkOpen, notifying,
                 device_address, message_buffer, due, postponed, readySeen,
                 readyEmits, conns, lastSend, cmdFailed, frameVars>>

\* _scan_and_connect returned False: await asyncio.sleep(2); continue
BleBackoff ==
  /\ variant = "ble" /\ pc = "backoff"
  /\ slept' = TRUE
  /\ cause' = "failed"
  /\ pc' = AfterFailedAttempt
  /\ events' = <<>>
  /\ UNCHANGED <<variant, uiPc, uiExec, running, is_ready, linkOpen, notifying,
                 device_address, message_buffer, due, postponed, readySeen,
                 readyEmits, conns, lastSend, cmdFailed, frameVars>>

\* the event loop runs _notification_handler while the coroutine awaits
BleNotify ==
  /\ variant = "ble" /\ linkOpen /\ notifying
  /\ pc \in {"settle", "comm", "exit", "except"}
  /\ Len(message_buffer) <= MaxBuf
  /\ \E data \in Chunks :
       LET runs == RunsCommand(Session, data)
       IN \E o \in IF runs THEN Outcomes ELSE {"ok"} :
          \E d \in IF runs /\ o # "raise" THEN Durations ELSE {0} :
          \E k \in IF due THEN {0} ELSE 0..d :
          LET st == NotificationHandler(Session, data, d, k, o)
          IN /\ message_buffer' = st.buf
             /\ cmdFailed' = st.failed
             /\ is_ready' = st.ready
             /\ readySeen' = st.seen
             /\ readyEmits' = st.emits
             /\ due' = st.due
             /\ postponed' = st.postponed
             /\ events' = st.evs
  /\ UNCHANGED <<variant, pc, uiPc, uiExec, running, linkOpen, notifying,
                 device_address, conns, cause, slept, lastSend, frameVars>>

\* the peripheral goes away: is_connected turns false, notifications end
BleLinkLost ==
  /\ variant = "ble" /\ linkOpen
  /\ linkOpen' = FALSE
  /\ notifying' = FALSE
  /\ events' = <<>>
  /\ UNCHANGED <<variant, pc, uiPc, uiExec, running, is_ready, device_address,
                 message_buffer, due, postponed, readySeen, readyEmits, conns,
                 cause, slept, lastSend, cmdFailed, frameVars>>

\* ------------------------------------- SerialThread (V2 and legacy CYDdeck)
IsSerial == variant \in {"serial", "legacy"}

\* except serial.SerialException: report; finally: close; run() returns
AfterSerialError == "finally"

\* run(): serial.Serial(port, baudrate, timeout=1); self.running = True
SerRunBegin ==
  /\ IsSerial /\ pc = "start"
  /\ \E ok \in BOOLEAN :
       IF ok
       THEN /\ conns < MaxConns
            /\ linkOpen' = TRUE
            /\ running' = TRUE
            /\ conns' = conns + 1
            /\ cmdFailed' = FALSE
            /\ pc' = "loop"
            /\ events' = <<>>
       ELSE /\ pc' = AfterSerialError
            /\ events' = <<Event("error_occurred", <<>>, is_ready, readySeen)>>
            /\ UNCHANGED <<linkOpen, running, conns, cmdFailed>>
  /\ UNCHANGED <<variant, uiPc, uiExec, is_ready, notifying, device_address,
                 message_buffer, due, postponed, readySeen, readyEmits, cause,
                 slept, lastSend, frameVars>>

\* one iteration of while self.running: the telemetry send (V2) when due and
\* ready, then in_waiting and readline, the ready check or the command
SerIter ==
  /\ IsSerial /\ pc = "loop"
  /\ IF ~running
     THEN /\ pc' = "finally"
          /\ events' = <<>>
          /\ UNCHANGED <<is_ready, due, postponed, readySeen, readyEmits, lastSend>>
     ELSE \E sent \in BOOLEAN, poll \in {"raise", "idle", "line"},
             data \in SerialReads, later \in BOOLEAN :
       LET tele    == variant = "serial" /\ SendDue(due, is_ready)
           tev     == IF tele /\ sent
                      THEN <<Event("telemetry_sent", <<>>, is_ready, readySeen)>>
                      ELSE <<>>
           dueT    == IF tele THEN FALSE ELSE due
           dec     == Decode(data)
           message == IF variant = "serial" THEN Strip(DecodeIgnore(data))
                      ELSE Strip(dec.chars)
           kind    == Dispatch(message, is_ready, Signals(variant))
           seen    == readySeen \/ message \in Signals(variant)
           msg     == Event("message_received", message, is_ready, readySeen)
       IN /\ lastSend' = IF tele THEN (IF sent THEN "ok" ELSE "write_failed")
                         ELSE lastSend
          /\ postponed' = IF tele THEN 0 ELSE postponed
          /\ IF poll = "raise"
             THEN /\ pc' = AfterSerialError
                  /\ events' = tev \o <<Event("error_occurred", <<>>, is_ready, readySeen)>>
                  /\ due' = dueT
                  /\ UNCHANGED <<is_ready, readySeen, readyEmits>>
             ELSE IF poll = "idle"
             THEN /\ pc' = "loop"
                  /\ events' = tev
                  /\ due' = (dueT \/ later)
                  /\ UNCHANGED <<is_ready, readySeen, readyEmits>>
             ELSE IF variant = "legacy" /\ ~dec.ok
             THEN /\ pc' = "loop"
                  /\ events' = tev \o <<Event("error_occurred", <<>>, is_ready, readySeen)>>
                  /\ due' = (dueT \/ later)
                  /\ UNCHANGED <<is_ready, readySeen, readyEmits>>
             ELSE IF message = <<>>
             THEN /\ pc' = "loop"
                  /\ events' = tev
                  /\ due' = dueT
                  /\ UNCHANGED <<is_ready, readySeen, readyEmits>>
             ELSE IF kind = "latch"
             THEN /\ pc' = "loop"
                  /\ is_ready' = TRUE
                  /\ readySeen' = seen
                  /\ readyEmits' = Min(readyEmits + 1, 2)
                  /\ events' = tev \o <<msg, Event("ready_received", message, TRUE, seen)>>
                  /\ due' = (dueT \/ later)
             ELSE IF kind = "process" /\ ReachesExecutor(message, Signals(variant))
             THEN /\ pc' = "exec"
                  /\ readySeen' = seen
                  /\ events' = tev \o <<msg, Event("execute", message, is_ready, readySeen)>>
                  /\ due' = dueT
                  /\ UNCHANGED <<is_ready, readyEmits>>
             ELSE /\ pc' = "loop"
                  /\ readySeen' = seen
                  /\ events' = tev \o <<msg>>
                  /\ due' = (dueT \/ later)
                  /\ UNCHANGED <<is_ready, readyEmits>>
  /\ UNCHANGED <<variant, uiPc, uiExec, running, linkOpen, notifying,
                 device_address, message_buffer, conns, cause, slept, cmdFailed,
                 frameVars>>

\* _process_command comes to its end after d ticks: command_executed or the
\* except clause's error_occurred, then sleep(0.01)
SerExecDone ==
  /\ IsSerial /\ pc = "exec"
  /\ \E o \in Outcomes, later \in BOOLEAN :
     \E d \in IF o = "raise" \/ variant = "legacy" THEN {0} ELSE Durations :
     \E k \in IF due THEN {0} ELSE 0..d :
       /\ LET t == Postpone([due |-> due, postponed |-> postponed], d, k)
          IN IF variant = "serial"
             THEN due' = (t.due \/ later) /\ postponed' = t.postponed
             ELSE UNCHANGED <<due, postponed>>
       /\ is_ready' = ReadyAfterCommand(is_ready, o)
       /\ cmdFailed' = (cmdFailed \/ o # "ok")
       /\ events' = <<Report(<<>>, is_ready, readySeen, o)>>
  /\ pc' = "loop"
  /\ UNCHANGED <<variant, uiPc, uiExec, running, linkOpen, notifying,
                 device_address, message_buffer, readySeen, readyEmits, conns,
                 cause, slept, lastSend, frameVars>>

\* finally: close the port if it is open; run() returns
SerFinally ==
  /\ IsSerial /\ pc = "finally"
  /\ linkOpen' = FALSE
  /\ pc' = "done"
  /\ events' = <<>>
  /\ UNCHANGED <<variant, uiPc, uiExec, running, is_ready, notifying,
                 device_address, message_buffer, due, postponed, readySeen,
                 readyEmits, conns, cause, slept, lastSend, cmdFailed, frameVars>>

\* ---------------------------------------------------------------- front end
\* _start_bluetooth / _start_serial: construct the thread and start() it
UiStart ==
  /\ uiPc = "idle" /\ pc = "new"
  /\ uiPc' = "started"
  /\ pc' = "start"
  /\ events' = <<>>
  /\ UNCHANGED <<variant, uiExec, running, is_ready, linkOpen, notifying,
                 device_address, message_buffer, due, postponed, readySeen,
                 readyEmits, conns, cause, slept, lastSend, cmdFailed, frameVars>>

\* stop(): self.running = False, then wait() (closeEvent asks isRunning()
\* first in the BLE front end)
UiStop ==
  /\ uiPc = "started" /\ ~uiExec
  /\ variant = "ble" => pc # "done"
  /\ running' = FALSE
  /\ uiPc' = "waiting"
  /\ events' = <<>>
  /\ UNCHANGED <<variant, pc, uiExec, is_ready, linkOpen, notifying,
                 device_address, message_buffer, due, postponed, readySeen,
                 readyEmits, conns, cause, slept, lastSend, cmdFailed, frameVars>>

\* wait() returns once run() has returned
UiWaitReturn ==
  /\ uiPc = "waiting" /\ pc = "done"
  /\ uiPc' = "stopped"
  /\ events' = <<>>
  /\ UNCHANGED <<variant, pc, uiExec, running, is_ready, linkOpen, notifying,
                 device_address, message_buffer, due, postponed, readySeen,
                 readyEmits, conns, cause, slept, lastSend, cmdFailed, frameVars>>

\* _send_test / _quick_test of the serial front end: when the thread object
\* exists and is_ready, call serial_thread._process_command(cmd) directly
UiTestBegin ==
  /\ variant = "serial" /\ uiPc \in {"started", "stopped"} /\ ~uiExec
  /\ is_ready
  /\ \E cmd \in TestInputs :
       /\ ReachesExecutor(cmd, READY_SIGNALS)
       /\ events' = <<Event("ui_execute", cmd, is_ready, readySeen)>>
  /\ uiExec' = TRUE
  /\ UNCHANGED <<variant, pc, uiPc, running, is_ready, linkOpen, notifying,
                 device_address, message_buffer, due, postponed, readySeen,
                 readyEmits, conns, cause, slept, lastSend, cmdFailed, frameVars>>

\* the executor called by the front end returns: command_executed
UiTestEnd ==
  /\ uiExec
  /\ uiExec' = FALSE
  /\ \E o \in Outcomes :
       events' = <<Report(<<>>, is_ready, readySeen, o)>>
  /\ UNCHANGED <<variant, pc, uiPc, running, is_ready, linkOpen, notifying,
                 device_address, message_buffer, due, postponed, readySeen,
                 readyEmits, conns, cause, slept, lastSend, cmdFailed, frameVars>>

\* ------------------------------------------------------------ specification
\* the steps of the session thread
ThreadStep ==
  \/ BleRunBegin \/ BleLoop \/ BleScan \/ BleConnect \/ BleStartNotify
  \/ BleSettle \/ BleCommIter \/ BleLoopExit \/ BleDisconnect \/ BleReset
  \/ BleExcept \/ BleBackoff
  \/ SerRunBegin \/ SerIter \/ SerExecDone \/ SerFinally

Next ==
  \/ BleRunBegin \/ BleLoop \/ BleScan \/ BleConnect \/ BleStartNotify
  \/ BleSettle \/ BleCommIter \/ BleLoopExit \/ BleDisconnect \/ BleReset
  \/ BleExcept \/ BleBackoff \/ BleNotify \/ BleLinkLost
  \/ SerRunBegin \/ SerIter \/ SerExecDone \/ SerFinally
  \/ UiStart \/ UiStop \/ UiWaitReturn \/ UiTestBegin \/ UiTestEnd

Spec == Init /\ [][Next]_vars

\* a started thread keeps being scheduled, and wait() returns when it ended
FairSpec == Spec /\ WF_vars(ThreadStep) /\ WF_vars(UiWaitReturn)

\* ------------------------------------------- frame reader specification
FrameBytes == {97, 32, 10, 195, 169}

\* the well-formed UTF-8 streams of at most MaxStream bytes: 'a', ' ', '\n'
\* and 'é' (C3 A9)
Streams ==
  {s \in UNION {[1..n -> FrameBytes] : n \in 0..MaxStream} : Decode(s).ok}

InitFrame ==
  /\ variant = "frame"
  /\ stream \in Streams
  /\ rest = stream
  /\ lines = <<>>
  /\ pc = "new" /\ uiPc = "idle" /\ uiExec = FALSE /\ running = FALSE
  /\ is_ready = FALSE /\ linkOpen = FALSE /\ notifying = FALSE
  /\ device_address = FALSE /\ message_buffer = <<>> /\ due = TRUE
  /\ events = <<>> /\ postponed = 0 /\ readySeen = FALSE /\ readyEmits = 0
  /\ conns = 0 /\ cause = "start" /\ slept = FALSE /\ lastSend = "none"
  /\ cmdFailed = FALSE /\ has_command_handler = TRUE
  /\ raw_command = <<>> /\ command = "none"
  /\ env = "none" /\ result = "none" /\ telemetry_buffer = "none"
  /\ sample = "none"

\* the next n bytes of the stream arrive as one notification
FrameFeed ==
  /\ variant \in {"frame", "raw"} /\ rest # <<>>
  /\ \E n \in 1..Len(rest) :
       LET st == NotificationHandler(Session, SubSeq(rest, 1, n), 0, 0, "ok")
       IN /\ message_buffer' = st.buf
          /\ is_ready' = st.ready
          /\ readySeen' = st.seen
          /\ readyEmits' = st.emits
          /\ events' = st.evs
          /\ lines' = lines \o MessageLines(st.evs)
          /\ rest' = SubSeq(rest, n + 1, Len(rest))
  /\ UNCHANGED <<variant, pc, uiPc, uiExec, running, linkOpen, notifying,
                 device_address, due, postponed, conns, cause, slept, lastSend,
                 cmdFailed, has_command_handler, stream, fnVars>>

NextFrame == FrameFeed

SpecFrame == InitFrame /\ [][NextFrame]_vars

\* ------------------------------------ frame reader on damaged streams
\* 'a', '\n' and a lone continuation byte (A9), which no decoder accepts
RawBytes == {97, 10, 169}

\* every stream of at most MaxStream of these bytes
RawStreams == UNION {[1..n -> RawBytes] : n \in 0..MaxStream}

InitRaw ==
  /\ variant = "raw"
  /\ stream \in RawStreams
  /\ rest = stream
  /\ lines = <<>>
  /\ pc = "new" /\ uiPc = "idle" /\ uiExec = FALSE /\ running = FALSE
  /\ is_ready \in BOOLEAN /\ linkOpen = FALSE /\ notifying = FALSE
  /\ device_address = FALSE /\ message_buffer = <<>> /\ due = TRUE
  /\ events = <<>> /\ postponed = 0 /\ readySeen = is_ready
  /\ readyEmits = (IF is_ready THEN 1 ELSE 0)
  /\ conns = 0 /\ cause = "start" /\ slept = FALSE /\ lastSend = "none"
  /\ cmdFailed = FALSE /\ has_command_handler = TRUE
  /\ raw_command = <<>> /\ command = "none"
  /\ env = "none" /\ result = "none" /\ telemetry_buffer = "none"
  /\ sample = "none"

NextRaw == FrameFeed

SpecRaw == InitRaw /\ [][NextRaw]_vars

\* ------------------------------- line framing, BLE handler and readline
\* 'a', ' ' and '\n': streams of single-byte characters
LineBytes == {97, 32, 10}

LineStreams == UNION {[1..n -> LineBytes] : n \in 0..MaxStream}

\* what serial_connection.readline() with timeout=1 can return when rest is
\* what the device sends from now on: the bytes up to and with the first
\* '\n', or, when the second runs out first, the bytes that came before it
Readlines(bytes) ==
  {SubSeq(bytes, 1, n) : n \in
     {k \in 1..Len(bytes) : \A j \in 1..(k - 1) : bytes[j] # NL}}

\* the BLE handler ("frame") or the V2 serial reader ("read") on a session
\* that is not ready yet
InitLines ==
  /\ variant \in {"frame", "read"}
  /\ stream \in LineStreams
  /\ rest = stream
  /\ lines = <<>>
  /\ pc = "new" /\ uiPc = "idle" /\ uiExec = FALSE /\ running = FALSE
  /\ is_ready = FALSE /\ linkOpen = FALSE /\ notifying = FALSE
  /\ device_address = FALSE /\ message_buffer = <<>> /\ due = TRUE
  /\ events = <<>> /\ postponed = 0 /\ readySeen = FALSE /\ readyEmits = 0
  /\ conns = 0 /\ cause = "start" /\ slept = FALSE /\ lastSend = "none"
  /\ cmdFailed = FALSE /\ has_command_handler = TRUE
  /\ raw_command = <<>> /\ command = "none"
  /\ env = "none" /\ result = "none" /\ telemetry_buffer = "none"
  /\ sample = "none"

\* if in_waiting > 0: message = readline().decode(errors='ignore').strip();
\* an empty message is skipped, any other is reported and dispatched
SerialReadline ==
  /\ variant = "read" /\ rest # <<>>
  /\ \E data \in Readlines(rest) :
       LET message == Strip(DecodeIgnore(data))
           st      == [Session EXCEPT !.buf = <<>>]
           after   == IF message = <<>> THEN st
                      ELSE HandleLine(st, message, READY_SIGNALS, 0, 0, "ok")
       IN /\ is_ready' = after.ready
          /\ readySeen' = after.seen
          /\ readyEmits' = after.emits
          /\ events' = after.evs
          /\ lines' = lines \o MessageLines(after.evs)
          /\ rest' = SubSeq(rest, Len(data) + 1, Len(rest))
  /\ UNCHANGED <<variant, pc, uiPc, uiExec, running, linkOpen, notifying,
                 device_address, message_buffer, due, postponed, conns, cause,
                 slept, lastSend, cmdFailed, has_command_handler, stream, fnVars>>

NextLines == FrameFeed \/ SerialReadline

SpecLines == InitLines /\ [][NextLines]_vars

\* the lines one notification holding the whole stream makes a fresh
\* session emit
WholeFeedLines ==
  MessageLines(NotificationHandler(
    [buf |-> <<>>, ready |-> FALSE, seen |-> FALSE, emits |-> 0, due |-> TRUE,
     postponed |-> 0, failed |-> FALSE, handler |-> has_command_handler,
     evs |-> <<>>], stream, 0, 0, "ok").evs)

\* ------------------------------------------------- parser specification
\* the session fields the function specifications leave at their defaults
sessionVars ==
  <<uiPc, uiExec, running, linkOpen, notifying, device_address, due, postponed,
    conns, cause, slept, lastSend, cmdFailed, has_command_handler>>

SessionAtRest ==
  /\ uiPc = "idle" /\ uiExec = FALSE /\ running = FALSE /\ linkOpen = FALSE
  /\ notifying = FALSE /\ device_address = FALSE /\ due = TRUE /\ postponed = 0
  /\ conns = 0 /\ cause = "start" /\ slept = FALSE /\ lastSend = "none"
  /\ cmdFailed = FALSE

\* the pieces command lines are made of: D 5 (superscript two) < > | " + a
\* (space) EXECUTE+ Ready! "a"
Tokens ==
  { <<68>>, <<53>>, <<178>>, <<60>>, <<62>>, <<124>>, <<34>>, <<43>>, <<97>>,
    <<32>>, <<69,88,69,67,85,84,69,43>>, <<82,101,97,100,121,33>>, <<34,97,34>> }

RECURSIVE Concat(_)
Concat(ts) == IF ts = <<>> THEN <<>> ELSE Head(ts) \o Concat(Tail(ts))

\* every line of at most MaxTokens tokens
CommandLines ==
  {Concat(ts) : ts \in UNION {[1..n -> Tokens] : n \in 0..MaxTokens}}

\* layout_code of the KeyboardLayoutManager the parser is made with
Layouts == {"us", "de"}

Unparsed == Returned(KeyCommand("none", <<>>, <<>>, <<>>))

InitParse ==
  /\ variant = "parse"
  /\ raw_command \in CommandLines
  /\ env \in Layouts
  /\ command = Unparsed
  /\ pc = "new"
  /\ SessionAtRest /\ has_command_handler = TRUE
  /\ is_ready = FALSE /\ readySeen = FALSE /\ readyEmits = 0
  /\ message_buffer = <<>> /\ events = <<>>
  /\ stream = <<>> /\ rest = <<>> /\ lines = <<>>
  /\ result = "none" /\ telemetry_buffer = "none" /\ sample = "none"

\* command = self.parser.parse(message)
ParseLine ==
  /\ variant \in {"parse", "latch", "keys"} /\ pc = "new"
  /\ command' = Parse(raw_command, env)
  /\ pc' = "parsed"
  /\ UNCHANGED <<variant, sessionVars, is_ready, readySeen, readyEmits,
                 message_buffer, events, stream, rest, lines, raw_command, env,
                 result, telemetry_buffer, sample>>

NextParse == ParseLine

SpecParse == InitParse /\ [][NextParse]_vars

\* ----------------------------------------------- key chord specification
\* the pieces chord, quoted and piped lines are made of: " + a (space) y Y
\* CTRL+ CONTROL+ Www. | "a" EXECUTE+ Ready!
KeyTokens ==
  { <<34>>, <<43>>, <<97>>, <<32>>, <<121>>, <<89>>, <<67,84,82,76,43>>,
    <<67,79,78,84,82,79,76,43>>, <<87,119,119,46>>, <<124>>, <<34,97,34>>,
    <<69,88,69,67,85,84,69,43>>, <<82,101,97,100,121,33>> }

\* every line of at most MaxTokens of these
KeyLines ==
  {Concat(ts) : ts \in UNION {[1..n -> KeyTokens] : n \in 0..MaxTokens}}

InitKeys ==
  /\ variant = "keys"
  /\ raw_command \in KeyLines
  /\ env \in Layouts
  /\ command = Unparsed
  /\ pc = "new"
  /\ SessionAtRest /\ has_command_handler = TRUE
  /\ is_ready = FALSE /\ readySeen = FALSE /\ readyEmits = 0
  /\ message_buffer = <<>> /\ events = <<>>
  /\ stream = <<>> /\ rest = <<>> /\ lines = <<>>
  /\ result = Unparsed /\ telemetry_buffer = "none" /\ sample = "none"

\* the same line given to the serial application's parser
ParseLineV2 ==
  /\ variant = "keys" /\ pc = "parsed"
  /\ result' = ParseV2(raw_command, env)
  /\ pc' = "compared"
  /\ UNCHANGED <<variant, sessionVars, is_ready, readySeen, readyEmits,
                 message_buffer, events, stream, rest, lines, raw_command, env,
                 command, telemetry_buffer, sample>>

NextKeys == ParseLine \/ ParseLineV2

SpecKeys == InitKeys /\ [][NextKeys]_vars

\* -------------------------------------------- ready line specification
\* the pieces of lines around the ready literals: Ready! Ready ready! a
\* (space) and "CYD Deck Ready!"
ReadyTokens ==
  { <<82,101,97,100,121,33>>, <<82,101,97,100,121>>, <<114,101,97,100,121,33>>,
    <<97>>, <<32>>, <<67,89,68,32,68,101,99,107,32,82,101,97,100,121,33>> }

ReadyLines ==
  {Concat(ts) : ts \in UNION {[1..n -> ReadyTokens] : n \in 0..MaxTokens}}

\* a thread made with or without command_handler, connected and not yet
\* ready, about to receive one line
InitLatch ==
  /\ variant = "latch"
  /\ raw_command \in ReadyLines
  /\ has_command_handler \in BOOLEAN
  /\ stream = raw_command \o <<NL>>
  /\ rest = stream
  /\ env = "us"
  /\ command = Unparsed
  /\ pc = "new"
  /\ SessionAtRest
  /\ is_ready = FALSE /\ readySeen = FALSE /\ readyEmits = 0
  /\ message_buffer = <<>> /\ events = <<>> /\ lines = <<>>
  /\ result = "none" /\ telemetry_buffer = "none" /\ sample = "none"

\* the line arrives in one notification
LatchFeed ==
  /\ variant = "latch" /\ rest # <<>>
  /\ LET st == NotificationHandler(Session, rest, 0, 0, "ok")
     IN /\ message_buffer' = st.buf
        /\ is_ready' = st.ready
        /\ readySeen' = st.seen
        /\ readyEmits' = st.emits
        /\ events' = st.evs
        /\ lines' = lines \o MessageLines(st.evs)
  /\ rest' = <<>>
  /\ UNCHANGED <<variant, pc, sessionVars, stream, fnVars>>

NextLatch == ParseLine \/ LatchFeed

SpecLatch == InitLatch /\ [][NextLatch]_vars

\* ----------------------------------------------- executor specification
\* lines whose commands the executor is given: one of each type, a text with
\* and without a chord, an empty text, and chords with and without fn
ExecLines ==
  { <<82,101,97,100,121,33>>,                \* Ready!
    <<68,53>>,                               \* D5
    <<69,88,69,67,85,84,69,43,97>>,          \* EXECUTE+a
    <<124,119,119,119,46,97,124>>,           \* |www.a|
    <<124,97,124>>,                          \* |a|
    <<60,97,62>>,                            \* <a>
    <<34,97,34>>,                            \* "a"
    <<67,84,82,76,43,34,97,34>>,             \* CTRL+"a"
    <<34,34>>,                               \* ""
    <<97>>,                                  \* a
    <<67,84,82,76,43,97>>,                   \* CTRL+a
    <<>>,                                    \* the empty line
    <<43>>,                                  \* +
    <<70,78>>,                               \* FN
    <<70,78,43,70,53>>,                      \* FN+F5
    <<70,78,43,97>>,                         \* FN+a
    <<70,78,43,97,43,70,53>> }               \* FN+a+F5

\* at most MaxFaults of the platform's calls fail during one execute
FaultSets == {f \in SUBSET Primitives : Cardinality(f) <= MaxFaults}

NoResult == Ret(FALSE, "none")

InitExec ==
  /\ variant = "exec"
  /\ raw_command \in ExecLines
  /\ command = Parse(raw_command, "us")
  /\ env \in [os : Platforms, faults : FaultSets]
  /\ result = NoResult
  /\ pc = "parsed"
  /\ SessionAtRest /\ has_command_handler = TRUE
  /\ is_ready = FALSE /\ readySeen = FALSE /\ readyEmits = 0
  /\ message_buffer = <<>> /\ events = <<>>
  /\ stream = <<>> /\ rest = <<>> /\ lines = <<>>
  /\ telemetry_buffer = "none" /\ sample = "none"

\* success, result = self.executor.execute(command)
ExecuteCommand ==
  /\ variant = "exec" /\ pc = "parsed"
  /\ result' = Execute(command.cmd, env)
  /\ pc' = "executed"
  /\ UNCHANGED <<variant, sessionVars, is_ready, readySeen, readyEmits,
                 message_buffer, events, stream, rest, lines, raw_command,
                 command, env, telemetry_buffer, sample>>

NextExec == ExecuteCommand

SpecExec == InitExec /\ [][NextExec]_vars

\* ----------------------------------------------- smoother specification
Channels == {"cpu", "gpu", "ram"}

\* raw samples, in units: 0 %, 7 % and MaxPercent %
RawValues == {0, 7 * Scale, MaxPercent * Scale}

\* the (cpu, gpu, ram) arguments of update
RawSamples == [cpu : RawValues, gpu : {0, MaxPercent * Scale}, ram : {7 * Scale}]

\* now - self.last_update in ticks: time.time() is the wall clock and can be
\* set back between two calls
ClockSteps == {-1, 0, 1, 2}

FnAtRest ==
  /\ SessionAtRest /\ has_command_handler = TRUE
  /\ is_ready = FALSE /\ readySeen = FALSE /\ readyEmits = 0
  /\ message_buffer = <<>> /\ events = <<>>
  /\ stream = <<>> /\ rest = <<>> /\ lines = <<>>
  /\ raw_command = <<>> /\ command = "none" /\ env = "none" /\ result = "none"
  /\ pc = "new"

\* a fresh buffer; sample records the last call: its arguments, its dt, the
\* buffer before it, and how many calls there were
InitSmooth ==
  /\ variant = "smooth"
  /\ telemetry_buffer = FreshBuffer
  /\ sample = [raw |-> [cpu |-> 0, gpu |-> 0, ram |-> 0], dt |-> 0,
               prev |-> FreshBuffer, n |-> 0]
  /\ FnAtRest

\* cpu,gpu,ram=self.telemetry_buffer.update(...) in _send_telemetry
UpdateCall ==
  /\ variant = "smooth" /\ sample.n < MaxUpdates
  /\ \E raw \in RawSamples, dt \in ClockSteps :
       /\ telemetry_buffer' = Update(telemetry_buffer, raw, dt)
       /\ sample' = [raw |-> raw, dt |-> dt, prev |-> telemetry_buffer,
                     n |-> sample.n + 1]
  /\ UNCHANGED <<variant, pc, sessionVars, is_ready, readySeen, readyEmits,
                 message_buffer, events, stream, rest, lines, raw_command,
                 command, env, result>>

NextSmooth == UpdateCall

SpecSmooth == InitSmooth /\ [][NextSmooth]_vars

\* --------------------------------------------- convergence specification
\* any prior state of one channel, the other two already at the sample, and
\* the sample X that every later call repeats
InitConverge ==
  /\ variant = "converge"
  /\ \E X \in RawSamples, ch \in Channels, v \in 0..(MaxPercent * Scale) :
       LET prior == [[none |-> FALSE, cpu |-> X.cpu, gpu |-> X.gpu, ram |-> X.ram]
                       EXCEPT ![ch] = v]
       IN /\ telemetry_buffer = prior
          /\ sample = [raw |-> X, dt |-> 1, prev |-> prior, n |-> 1]
  /\ FnAtRest

\* update with the same sample after one or two ticks
UpdateSame ==
  /\ variant = "converge"
  /\ \E dt \in {1, 2} :
       /\ telemetry_buffer' = Update(telemetry_buffer, sample.raw, dt)
       /\ sample' = [sample EXCEPT !.dt = dt, !.prev = telemetry_buffer]
  /\ UNCHANGED <<variant, pc, sessionVars, is_ready, readySeen, readyEmits,
                 message_buffer, events, stream, rest, lines, raw_command,
                 command, env, result>>

NextConverge == UpdateSame

\* the session keeps calling update: _send_telemetry runs on every tick
SpecConverge == InitConverge /\ [][NextConverge]_vars /\ WF_vars(UpdateSame)

\* ------------------------------------------ command order specification
\* what the device sends: the ready line, the commands "a" and "b", and an
\* "a" that the next token goes on
OrderTokens == {ReadyChunk, <<97, 10>>, <<98, 10>>, <<97>>}

\* every stream of at most MaxTokens of them
OrderStreams ==
  {Concat(ts) : ts \in UNION {[1..n -> OrderTokens] : n \in 0..MaxTokens}}

\* a new connection; lines collects the lines handed to the executor
InitOrder ==
  /\ variant = "order"
  /\ stream \in OrderStreams
  /\ rest = stream
  /\ lines = <<>>
  /\ pc = "comm" /\ uiPc = "started" /\ uiExec = FALSE /\ running = TRUE
  /\ is_ready = FALSE /\ linkOpen = TRUE /\ notifying = TRUE
  /\ device_address = TRUE /\ message_buffer = <<>> /\ due = TRUE
  /\ events = <<>> /\ postponed = 0 /\ readySeen = FALSE /\ readyEmits = 0
  /\ conns = 1 /\ cause = "start" /\ slept = FALSE /\ lastSend = "none"
  /\ cmdFailed = FALSE /\ has_command_handler = TRUE
  /\ raw_command = <<>> /\ command = "none"
  /\ env = "none" /\ result = "none" /\ telemetry_buffer = "none"
  /\ sample = "none"

\* the next n bytes arrive as one notification; the commands among its lines
\* succeed or fail
OrderFeed ==
  /\ variant = "order" /\ rest # <<>>
  /\ \E n \in 1..Len(rest), o \in {"ok", "fail"} :
       LET st == NotificationHandler(Session, SubSeq(rest, 1, n), 0, 0, o)
       IN /\ message_buffer' = st.buf
          /\ is_ready' = st.ready
          /\ readySeen' = st.seen
          /\ readyEmits' = st.emits
          /\ cmdFailed' = st.failed
          /\ events' = st.evs
          /\ lines' = lines \o ExecutedLines(st.evs)
          /\ rest' = SubSeq(rest, n + 1, Len(rest))
  /\ UNCHANGED <<variant, pc, uiPc, uiExec, running, linkOpen, notifying,
                 device_address, due, postponed, conns, cause, slept, lastSend,
                 has_command_handler, stream, fnVars>>

NextOrder == OrderFeed

SpecOrder == InitOrder /\ [][NextOrder]_vars

\* ------------------------------------------- telemetry tick specification
\* what a tick reads: psutil.cpu_percent, psutil.virtual_memory, and for the
\* GPU first GPUtil, then the nvidia-smi program
Sources == {"cpu", "ram", "GPUtil", "nvidia_smi"}

\* _get_gpu(): GPUtil's load, else nvidia-smi's figure, else return 0.0; down
\* holds the sources that raise or give nothing
_get_gpu(down, gpu) ==
  IF "GPUtil" \notin down THEN gpu
  ELSE IF "nvidia_smi" \notin down THEN gpu
  ELSE 0

\* packet=f"<T|...|{cpu:.1f}|{gpu:.1f}|{ram:.1f}>"
Packet(tb) == [cpu |-> Shown(tb.cpu), gpu |-> Shown(tb.gpu), ram |-> Shown(tb.ram)]

NoPacket == [cpu |-> -1, gpu |-> -1, ram |-> -1]

\* _send_telemetry(): the buffer after the call and the packet written, if
\* any; psutil raising or the write raising ends the try block, the except
\* clause passes
SendTelemetry(tb, open, down, raw, dt, written) ==
  IF ~open THEN [tb |-> tb, packet |-> NoPacket, fed |-> FALSE]
  ELSE IF "cpu" \in down \/ "ram" \in down
  THEN [tb |-> tb, packet |-> NoPacket, fed |-> FALSE]
  ELSE LET gpu_raw == _get_gpu(down, raw.gpu)
           upd     == Update(tb, [cpu |-> raw.cpu, gpu |-> gpu_raw, ram |-> raw.ram], dt)
       IN [tb |-> upd, packet |-> IF written THEN Packet(upd) ELSE NoPacket,
           fed |-> TRUE]

\* a ready session on an open link; env holds the sources that were down at
\* the last tick, result the packet it wrote
InitTick ==
  /\ variant = "tick"
  /\ telemetry_buffer = FreshBuffer
  /\ sample = [raw |-> [cpu |-> 0, gpu |-> 0, ram |-> 0], dt |-> 0,
               prev |-> FreshBuffer, n |-> 0]
  /\ env = {}
  /\ result = NoPacket
  /\ pc = "comm" /\ uiPc = "started" /\ uiExec = FALSE /\ running = TRUE
  /\ is_ready = TRUE /\ linkOpen = TRUE /\ notifying = TRUE
  /\ device_address = TRUE /\ message_buffer = <<>> /\ due = TRUE
  /\ events = <<>> /\ postponed = 0 /\ readySeen = TRUE /\ readyEmits = 1
  /\ conns = 1 /\ cause = "start" /\ slept = FALSE /\ lastSend = "none"
  /\ cmdFailed = FALSE /\ has_command_handler = TRUE
  /\ stream = <<>> /\ rest = <<>> /\ lines = <<>>
  /\ raw_command = <<>> /\ command = "none"

\* await self._send_telemetry() in _communication_loop, when due and ready
TelemetryTick ==
  /\ variant = "tick" /\ sample.n < MaxUpdates
  /\ due /\ is_ready /\ running /\ linkOpen
  /\ \E down \in SUBSET Sources, raw \in RawSamples, dt \in {1, 2},
        written \in BOOLEAN :
       LET r == SendTelemetry(telemetry_buffer, linkOpen, down, raw, dt, written)
       IN /\ telemetry_buffer' = r.tb
          /\ result' = r.packet
          /\ env' = down
          /\ sample' = [raw |-> raw, dt |-> dt, prev |-> telemetry_buffer,
                        n |-> sample.n + 1]
          /\ lastSend' = IF r.packet # NoPacket THEN "ok" ELSE "write_failed"
          /\ events' = IF r.packet # NoPacket
                       THEN <<Event("telemetry_sent", <<>>, is_ready, readySeen)>>
                       ELSE <<>>
  /\ UNCHANGED <<variant, pc, uiPc, uiExec, running, is_ready, linkOpen,
                 notifying, device_address, message_buffer, due, postponed,
                 readySeen, readyEmits, conns, cause, slept, cmdFailed,
                 has_command_handler, stream, rest, lines, raw_command, command>>

NextTick == TelemetryTick

SpecTick == InitTick /\ [][NextTick]_vars

\* ------------------------------------------------------------------ claims
Executes == {i \in 1..Len(events) : events[i].sig = "execute"}

\* C1: a line of the device reaches the executor only when is_ready was true
\* at its dispatch and a ready line had arrived before it on the current
\* connection, in the BLE, the serial V2 and the legacy session alike.
HandshakeGate ==
  \A i \in Executes : events[i].ready /\ events[i].seen

\* C1 witness: on a second connection a command has reached the executor
HandshakeGateWitness ==
  /\ conns >= 2
  /\ \E i \in Executes : events[i].seen

\* C2: (BLE) every new connection starts with is_ready false: while the
\* thread is in a connection, ready implies a ready line of this connection,
\* and neither a command nor a telemetry packet goes out before that line.
LatchResetOnReconnect ==
  variant = "ble" =>
    /\ pc = "notify" => ~is_ready
    /\ (pc \in {"settle", "comm"} /\ is_ready) => readySeen
    /\ \A i \in 1..Len(events) :
         events[i].sig \in {"execute", "telemetry_sent"} => events[i].seen

\* C2 witness: on a second connection a command line arrived before the ready
\* line and was only reported
LatchResetWitness ==
  /\ variant = "ble" /\ conns >= 2 /\ ~is_ready
  /\ \E i \in 1..Len(events) :
       events[i].sig = "message_received" /\ events[i].line \notin READY_SIGNALS
  /\ Executes = {}

\* C3: within a connection ready_received is emitted at most once, and once
\* exactly when a ready line arrived; is_ready only falls when the link is
\* closed.
OneWayLatch ==
  /\ [](variant # "frame" => (readyEmits <= 1 /\ (readyEmits = 1 <=> readySeen)))
  /\ [][(is_ready /\ ~is_ready') => ~linkOpen]_vars

\* C3 witness: a further ready line arrived on a ready session and no second
\* ready_received was emitted
OneWayLatchWitness ==
  /\ readyEmits = 1 /\ is_ready /\ linkOpen
  /\ \E i \in 1..Len(events) :
       /\ events[i].sig = "message_received"
       /\ events[i].line \in READY_SIGNALS
       /\ events[i].ready

\* C4: once the whole stream was delivered, in whatever chunks, the lines
\* emitted are those of a single notification holding the whole stream.
ChunkInvariance ==
  (variant = "frame" /\ rest = <<>>) => lines = WholeFeedLines

\* C5: an executing command holds a due telemetry send back by at most one
\* tick.
TelemetryNotStarved == postponed <= 1

\* C6: the executor is never running on the session thread and on the
\* front-end thread at once.
NoConcurrentExecute == ~(uiExec /\ pc = "exec")

\* C7: (BLE) once stop() was called, the thread ends with the link closed
\* and wait() returns.
StopTerminates ==
  (variant = "ble" /\ uiPc = "waiting")
    ~> (pc = "done" /\ ~linkOpen /\ uiPc = "stopped")

SerialErrorsNotFatal ==
  (IsSerial /\ pc = "done") => uiPc \in {"waiting", "stopped"}

\* C10: after a failed telemetry write the session is no longer ready in
\* its loop.
WriteFailureEndsActive ==
  lastSend = "write_failed" => ~(is_ready /\ pc \in {"comm", "loop", "exec"})

\* a command of the step that led here failed or raised
FailureReported(evs) ==
  \E i \in 1..Len(evs) : evs[i].res \in {"fail", "raise"}

\* C11: a command that returns (False, ...) or raises is reported as
\* command_executed or error_occurred and leaves is_ready, the link, running
\* and the thread's place in its loop as they were; the session stays ready
\* for as long as the link is open, and the next command line of the
\* session is handed to _process_command like any other.
FailedCommandKeepsSession ==
  /\ [](cmdFailed /\ linkOpen => is_ready)
  /\ [](\A i \in 1..Len(events) :
          events[i].res \in {"fail", "raise"} =>
            events[i].sig \in {"command_executed", "error_occurred"})
  /\ [][FailureReported(events') =>
          /\ is_ready' = is_ready /\ linkOpen' = linkOpen /\ running' = running
          /\ pc' \in {pc, "loop"}]_vars
  /\ [][\A i \in 1..Len(events') :
          (/\ cmdFailed /\ is_ready
           /\ events'[i].sig = "message_received"
           /\ events'[i].line \notin Signals(variant))
          => /\ i < Len(events')
             /\ events'[i + 1].sig \in {"execute", "error_occurred"}
             /\ events'[i + 1].line = events'[i].line]_vars

\* C11 witness: a command line was executed with success on a connection on
\* which an earlier command had failed or raised
FailedCommandWitness ==
  /\ cmdFailed /\ is_ready /\ linkOpen
  /\ \E i \in 1..Len(events) :
       /\ events[i].sig = "command_executed"
       /\ events[i].res = "ok"
       /\ events[i].line # <<>>

Parsed == variant \in {"parse", "latch"} /\ pc = "parsed"

\* C13: parse returns a KeyCommand for every line and never raises.
ParserTotal == Parsed => command.exc = "none"

\* the grammar rules in their stated order, by the shape of the line alone
ShapeDelay(s) ==
  Len(s) > 1 /\ s[1] \in {68, 100} /\ \A i \in 2..Len(s) : IsDecimal(s[i])

ShapeShell(s) == Len(s) >= 2 /\ s[1] = 60 /\ s[Len(s)] = 62

ShapeExecute(s) == StartsWith(Upper(s), <<69,88,69,67,85,84,69,43>>)

ShapePipe(s) == Len(s) > 2 /\ s[1] = 124 /\ s[Len(s)] = 124

ShapeQuoted(s) == Cardinality({i \in 1..Len(s) : s[i] = 34}) >= 2

FirstRule(s) ==
  IF s \in READY_SIGNALS THEN {"ready_signal"}
  ELSE IF ShapeDelay(s) THEN {"delay"}
  ELSE IF ShapeShell(s) THEN {"cmd"}
  ELSE IF ShapeExecute(s) THEN {"execute"}
  ELSE IF ShapePipe(s) THEN {"url", "file_path"}
  ELSE IF ShapeQuoted(s) THEN {"url", "text"}
  ELSE {"keystroke"}

\* C14: the command parse returns is one of the earliest rule, in the order
\* ready literal, delay, shell command, EXECUTE+, |...|, quoted text,
\* keystroke, whose shape the trimmed line has.
ParserPrecedence ==
  (Parsed /\ command.exc = "none") =>
    command.cmd.command_type \in FirstRule(Strip(raw_command))

\* C14 witness: a line with the shape of the EXECUTE+ rule and of the quoted
\* text rule was parsed as an Execute
ParserPrecedenceWitness ==
  /\ Parsed /\ variant = "parse"
  /\ ShapeExecute(Strip(raw_command)) /\ ShapeQuoted(Strip(raw_command))
  /\ command.cmd.command_type = "execute"

\* C15: parse gives a READY_SIGNAL exactly for the lines that, trimmed, are
\* one of the READY_SIGNALS literals, and a session that latched is_ready
\* on a line did so on such a line.
ReadyClassification ==
  /\ (Parsed /\ command.exc = "none") =>
       (command.cmd.command_type = "ready_signal"
          <=> Strip(raw_command) \in READY_SIGNALS)
  /\ (variant = "latch" /\ is_ready) => Strip(raw_command) \in READY_SIGNALS

Executed == variant = "exec" /\ pc = "executed"

\* every call the command needs raised: the sleep of a Delay, the browser of
\* a Url, the opener of an existing FilePath, the launch of a ShellCommand
\* that has a terminal, both launchers of an Execute, the chord or the typing
\* of a Text, the chord of a Keystroke, and for an fn chord its fallback too
TotalFailure(cmd, e) ==
  LET t    == cmd.command_type
      f    == e.faults
      keys == cmd.modifiers \o cmd.keys
      rest_keys == SelectSeq(keys, IsNotFn)
  IN \/ t = "delay" /\ "sleep" \in f
     \/ t = "url" /\ "webbrowser" \in f
     \/ t = "file_path" /\ "missing" \notin f
          /\ (IF e.os = "nt" THEN "startfile" \in f ELSE "popen" \in f)
     \/ t = "cmd" /\ "popen" \in f
          /\ (e.os \in {"nt", "Darwin"} \/ "no_terminal" \notin f)
     \/ t = "execute" /\ "popen" \in f /\ (e.os = "nt" => "startfile" \in f)
     \/ t = "text" /\ keys # <<>> /\ "press_and_release" \in f
     \/ t = "text" /\ cmd.text_content # <<>> /\ "write" \in f
     \/ t = "keystroke" /\ keys # <<>> /\ FnKey \notin Range(keys)
          /\ "press_and_release" \in f
     \/ t = "keystroke" /\ FnKey \in Range(keys) /\ rest_keys # <<>>
          /\ {"press_fn", "fn_key_press", "release_fn"} \cap f # {}
          /\ (IF Len(rest_keys) = 1 /\ rest_keys[1] \in FN_VK_MAPPING
              THEN e.os # "nt" \/ "keybd_event" \in f
              ELSE "fallback_press" \in f)

\* C12: execute comes back with a (bool, string) pair for every command type
\* and every failing platform call, it never raises, and when every call
\* the command needs has failed the pair says success = false.
ExecutorNeverPropagates ==
  Executed =>
    /\ ~result.exc
    /\ result.success \in BOOLEAN
    /\ TotalFailure(command.cmd, env) => ~result.success

\* C12 witness: the fallback of an fn chord raised out of
\* _execute_fn_combination and execute turned it into (False, "Error: ...")
ExecutorWitness ==
  /\ Executed
  /\ FnKey \in Range(command.cmd.modifiers)
  /\ "press_fn" \in env.faults
  /\ result.message = "Error" /\ ~result.success

\* max_change_per_sec * dt in units, and no change at all for a dt below zero
Allowed(dt) ==
  IF dt > 0 THEN (max_change_per_sec * Scale * dt) \div TicksPerSec ELSE 0

\* C16: from the second call on, each of cpu, gpu and ram differs from the
\* value returned before by at most max_change_per_sec * dt, for every dt,
\* and is no further from the raw sample than the value before.
RateClamp ==
  (variant = "smooth" /\ sample.n >= 2) =>
    \A ch \in Channels :
      /\ Abs(telemetry_buffer[ch] - sample.prev[ch]) <= Allowed(sample.dt)
      /\ Abs(telemetry_buffer[ch] - sample.raw[ch])
           <= Abs(sample.prev[ch] - sample.raw[ch])

\* C17: the first update of a fresh buffer returns the raw cpu, gpu and ram
\* as they are, whatever the time since the buffer was made.
SmootherSeeding ==
  (variant = "smooth" /\ sample.n = 1) =>
    \A ch \in Channels : telemetry_buffer[ch] = sample.raw[ch]

\* C17 witness: a first call one tick after construction returned a cpu
\* sample far above what the rate limit would have let through
SmootherSeedingWitness ==
  /\ variant = "smooth" /\ sample.n = 1 /\ sample.dt = 1
  /\ sample.raw.cpu = MaxPercent * Scale
  /\ telemetry_buffer.cpu = MaxPercent * Scale

\* half a step of f"{value:.1f}": values closer than this to a sample are
\* transmitted as the sample or as its neighbour in the last decimal
Resolution == Scale \div 20

\* cpu, gpu and ram are at the sample of the last call
AtSample ==
  \A ch \in Channels :
    Abs(telemetry_buffer[ch] - sample.raw[ch]) < Resolution

\* C18: under repeated calls with one sample X and time passing between
\* them, the returned values reach X, as transmitted with one decimal, and
\* stay there.
SmootherConverges == variant = "converge" => <>[]AtSample

\* C18 witness: a value that started MaxPercent away from the sample has
\* arrived at it
SmootherConvergesWitness ==
  /\ variant = "converge" /\ AtSample
  /\ sample.raw.cpu = MaxPercent * Scale
  /\ telemetry_buffer.cpu # sample.raw.cpu
  /\ sample.prev.cpu < telemetry_buffer.cpu

RECURSIVE CompleteLines(_)
\* the byte strings the stream's '\n' bytes terminate, in order
CompleteLines(bytes) ==
  IF ~HasNewline(bytes) THEN <<>>
  ELSE LET sp == SplitLine(bytes) IN <<sp.line>> \o CompleteLines(sp.rest)

RECURSIVE IntactLines(_)
\* the complete lines that decode, stripped, without the empty ones
IntactLines(ls) ==
  IF ls = <<>> THEN <<>>
  ELSE LET dec == Decode(Head(ls))
       IN IF dec.ok /\ Strip(dec.chars) # <<>>
          THEN <<Strip(dec.chars)>> \o IntactLines(Tail(ls))
          ELSE IntactLines(Tail(ls))

\* C19: once a stream with invalid bytes has been received, the lines emitted
\* are the complete lines free of invalid bytes, each unchanged and in
\* order (so none is missing and none is put together from two lines), and a
\* notification that failed to decode leaves is_ready as it was.
DecodeErrorIsolated ==
  variant = "raw" =>
    /\ rest = <<>> => lines = IntactLines(CompleteLines(stream))
    /\ \A i \in 1..Len(events) :
         events[i].sig = "error_occurred" => is_ready = events[i].ready

\* the non-empty lines, stripped, that text holds up to its last '\n'
NonEmptyLines(text) ==
  LET ls == CompleteLines(text)
  IN SelectSeq([i \in 1..Len(ls) |-> Strip(ls[i])], LAMBDA l : l # <<>>)

\* within the signals of one notification: an executor call comes right
\* after the message_received of its line and right before the one
\* command_executed that carries the line and the call's result, the session
\* emits no command_executed without a call, and ready_received too follows
\* the message_received of its line
EventsOrdered ==
  \A i \in 1..Len(events) :
    /\ events[i].sig = "execute" =>
         /\ i > 1 /\ i < Len(events)
         /\ events[i - 1].sig = "message_received"
         /\ events[i - 1].line = events[i].line
         /\ events[i + 1].sig = "command_executed"
         /\ events[i + 1].line = events[i].line
         /\ events[i + 1].res \in {"ok", "fail"}
    /\ (events[i].sig = "command_executed" /\ events[i].line # <<>>) =>
         i > 1 /\ events[i - 1].sig = "execute"
    /\ events[i].sig = "ready_received" =>
         /\ i > 1
         /\ events[i - 1].sig = "message_received"
         /\ events[i - 1].line = events[i].line

\* the message_received signals of a notification are the non-empty lines
\* that the buffer and the decoded data hold, one signal per line, in order
OneMessagePerLine ==
  (variant = "ble" /\ MessageLines(events') # <<>>) =>
    \E data \in Chunks :
      /\ Decode(data).ok
      /\ MessageLines(events') =
           NonEmptyLines(message_buffer \o Decode(data).chars)

SourceDown ==
  \/ "cpu" \in env \/ "ram" \in env
  \/ {"GPUtil", "nvidia_smi"} \subseteq env

\* C21: a tick on which the cpu, ram or gpu source is unavailable writes no
\* packet and leaves the smoother as it was, and the session stays ready on
\* its open link.
TickSkipped ==
  (variant = "tick" /\ sample.n >= 1 /\ SourceDown) =>
    /\ result = NoPacket
    /\ telemetry_buffer = sample.prev
    /\ is_ready /\ running /\ linkOpen

\* C22: a ready-signal line that arrives on a session that is already ready
\* is reported and nothing else: no call of the executor (from the device or
\* from a test button), no command_executed, no second ready_received, and
\* is_ready is still true afterwards.
ReadyLineNotExecuted ==
  variant \in {"ble", "serial", "legacy"} =>
    \A i \in 1..Len(events) :
      /\ events[i].sig \in {"execute", "ui_execute"} =>
           Strip(events[i].line) \notin Signals(variant)
      /\ ( /\ events[i].sig = "message_received"
           /\ events[i].ready
           /\ events[i].line \in Signals(variant) ) =>
           /\ is_ready /\ pc # "exec"
           /\ i = Len(events) \/ events[i + 1].sig = "message_received"

\* C22 witness: "Ready!" came in on a ready session and was only reported
ReadyLineNotExecutedWitness ==
  /\ variant \in {"ble", "serial"} /\ is_ready
  /\ events # <<>>
  /\ events[Len(events)] =
       Event("message_received", <<82,101,97,100,121,33>>, TRUE, TRUE)

\* C23: when a connection has just been established (connected was emitted),
\* the partial-line accumulator is empty, so nothing received on an earlier
\* connection is put in front of the first line of this one.
BufferPerConnection ==
  (variant = "ble" /\ \E i \in 1..Len(events) : events[i].sig = "connected") =>
    message_buffer = <<>>

\* the part of the stream that has been received
Received == SubSeq(stream, 1, Len(stream) - Len(rest))

\* C24: at every moment the lines handed to the session are the trimmed,
\* non-empty lines whose '\n' has been received, in the BLE handler and in
\* the serial reader; bytes after the last '\n' wait for the rest of their
\* line.
OnlyTerminatedLines ==
  variant \in {"frame", "read"} => lines = NonEmptyLines(Received)

RECURSIVE AfterReady(_)
\* what follows the first ready literal of ls
AfterReady(ls) ==
  IF ls = <<>> THEN <<>>
  ELSE IF Head(ls) \in READY_SIGNALS THEN Tail(ls)
  ELSE AfterReady(Tail(ls))

\* the lines of the received text that are commands: after the ready line,
\* not empty and no ready literal
CommandsOf(text) ==
  SelectSeq(AfterReady(NonEmptyLines(text)), LAMBDA l : l \notin READY_SIGNALS)

TelemetrySent(evs) == \E i \in 1..Len(evs) : evs[i].sig = "telemetry_sent"

\* C26: a step that transmits a telemetry packet starts with the link open,
\* the thread in its loop, is_ready true and the minimum interval since the
\* previous send passed.
TelemetryGuarded ==
  [][(variant \in {"ble", "serial"} /\ TelemetrySent(events')) =>
       /\ linkOpen /\ running
       /\ is_ready
       /\ due]_vars

\* C26 witness: a packet went out on a ready BLE session
TelemetryGuardedWitness ==
  /\ variant = "ble" /\ TelemetrySent(events)
  /\ lastSend = "ok" /\ is_ready /\ linkOpen

\* C27: _scan_and_connect goes on to BleakClient.connect only from a scan
\* that found the device (device_found was emitted by it); a scan without a
\* matching device ends the attempt, whatever earlier scans found.
ScanAbsentFails ==
  [][(variant = "ble" /\ pc = "scan" /\ pc' = "connect") =>
       \E i \in 1..Len(events') : events'[i].sig = "device_found"]_vars

\* the thread is between connected.emit() and the end of that connection
InConnection(at) == at \in {"settle", "comm", "exit", "disc", "reset", "except"}

Emitted(evs, sig) == \E i \in 1..Len(evs) : evs[i].sig = sig

\* C28: connected is emitted on entering a connection and only then, and the
\* thread leaves a connection, for the next attempt or for its end, only with
\* disconnected emitted, which is emitted at no other time: the two events
\* alternate, also after stop() and after a raising stop_notify or disconnect.
ConnectedPaired ==
  [][variant = "ble" =>
       /\ Emitted(events', "connected") <=> (~InConnection(pc) /\ InConnection(pc'))
       /\ (InConnection(pc) /\ ~InConnection(pc')) => Emitted(events', "disconnected")
       /\ Emitted(events', "disconnected") => (InConnection(pc) /\ ~InConnection(pc'))
    ]_vars

\* run() of the serial thread has returned, after stop() or after the port
\* failed, and the port is closed
SessionEnded == pc = "done"

\* C29: once a serial session has ended, no command starts to execute
\* through it, neither a line from the device nor a test of the front end.
NoExecutionAfterEnd ==
  [][(variant = "serial" /\ SessionEnded) =>
       /\ ~(uiExec' /\ ~uiExec)
       /\ pc' # "exec"]_vars

\* C30: when execute has come back from a chord with fn, whichever of its
\* key calls failed, the virtual fn key is not held: its press was followed
\* by its release, and no fallback press was made under a held fn.
FnNeverHeld ==
  (Executed /\ FnKey \in Range(command.cmd.modifiers \o command.cmd.keys)) =>
    ~result.fn_held

\* C31: when kb.press('fn') is the one call that fails, a chord of fn with at
\* least one other key comes back with success = true on every platform.
FnFallbackSucceeds ==
  ( /\ Executed
    /\ command.cmd.command_type = "keystroke"
    /\ FnKey \in Range(command.cmd.modifiers)
    /\ command.cmd.keys # <<>>
    /\ env.faults = {"press_fn"} ) =>
    result.success

\* C32: a shell command reports success only when a terminal was spawned;
\* with none of the known terminal programs installed it reports failure.
ShellNeedsTerminal ==
  ( /\ Executed
    /\ command.cmd.command_type = "cmd"
    /\ env.os = "Linux"
    /\ "no_terminal" \in env.faults ) =>
    ~result.success

\* a line of the key chord specification has been parsed
KeysParsed == variant = "keys" /\ pc # "new" /\ command.exc = "none"

\* the part of a quoted line before its first quote, trailing '+' removed
PrefixOf(line) ==
  Strip(RStripChar(Slice(Strip(line), 0, Index(Strip(line), 34)), 43))

\* C33: the prefix of a quoted-text line yields the modifiers and keys the
\* keystroke rule yields for it under the same layout (with 'de' the prefix
\* key y becomes z), and a token of more than one character is never changed
\* by the layout in either rule.
TextPrefixTransformed ==
  /\ (KeysParsed /\ command.cmd.command_type = "text") =>
       /\ command.cmd.modifiers = ParseKeystroke(PrefixOf(raw_command), env).modifiers
       /\ command.cmd.keys = ParseKeystroke(PrefixOf(raw_command), env).keys
  /\ (KeysParsed /\ command.cmd.command_type \in {"text", "keystroke"}) =>
       \A i \in 1..Len(command.cmd.keys) :
         Len(command.cmd.keys[i]) > 1 =>
           command.cmd.keys[i] = map_key(command.cmd.keys[i])

\* the non-empty '+'-separated tokens of a chord, trimmed, in line order
ChordTokens(chord) ==
  SelectSeq([i \in 1..Len(Split(chord, 43)) |-> Strip(Split(chord, 43)[i])],
            LAMBDA k : k # <<>>)

\* the part of a parsed line its modifiers and keys are taken from
ChordOf(cmd) ==
  IF cmd.command_type = "text" THEN PrefixOf(cmd.raw_input) ELSE cmd.raw_input

\* the name a token stands for: its alias in the key table or itself in
\* lower case, then the layout's character for it
Canonical(token, layout_code) ==
  LET up == Upper(token)
      named == {m \in KEY_MAPPINGS : m[1] = up}
      name == IF named = {} THEN Lower(token) ELSE (CHOOSE m \in named : TRUE)[2]
      moved == {t \in Transformations(layout_code) : Len(name) = 1 /\ t[1] = name[1]}
  IN {name} \cup {<<t[2]>> : t \in moved}

\* C34: in every Keystroke or Text command parse returns, under every layout,
\* each modifier is one of ctrl, alt, shift, win, fn and no key is; every
\* element is in lower case; and the modifiers and the keys are, each in the
\* order of the line, the names of some of the line's non-empty tokens, with
\* one element per token.
ModifierKeyPartition ==
  (KeysParsed /\ command.cmd.command_type \in {"text", "keystroke"}) =>
    LET cmd    == command.cmd
        tokens == ChordTokens(ChordOf(cmd))
        names  == [i \in 1..Len(tokens) |-> Canonical(tokens[i], env)]
        Fits(sub) ==
          \E pick \in [1..Len(sub) -> 1..Len(tokens)] :
            /\ \A i \in 1..Len(sub) : sub[i] \in names[pick[i]]
            /\ \A i, j \in 1..Len(sub) : i < j => pick[i] < pick[j]
    IN /\ \A i \in 1..Len(cmd.modifiers) : cmd.modifiers[i] \in MODIFIER_KEYS
       /\ \A i \in 1..Len(cmd.keys) : cmd.keys[i] \notin MODIFIER_KEYS
       /\ \A k \in Range(cmd.modifiers) \cup Range(cmd.keys) : k = Lower(k)
       /\ Len(cmd.modifiers) + Len(cmd.keys) = Len(tokens)
       /\ Fits(cmd.modifiers) /\ Fits(cmd.keys)

\* a chord of a modifier and a key written in upper case, under 'de'
ModifierKeyPartitionWitness ==
  /\ KeysParsed /\ command.cmd.command_type = "keystroke" /\ env = "de"
  /\ command.cmd.modifiers # <<>> /\ command.cmd.keys = <<<<122>>>>
  /\ 89 \in Range(raw_command)

\* C35: in every Keystroke or Text command parse returns, no modifier occurs
\* twice in modifiers, also when the line repeats it or names it by two
\* aliases.
ModifiersDistinct ==
  (KeysParsed /\ command.cmd.command_type \in {"text", "keystroke"}) =>
    \A i, j \in 1..Len(command.cmd.modifiers) :
      command.cmd.modifiers[i] = command.cmd.modifiers[j] => i = j

\* the positions of the quotes of a line
Quotes(line) == {i \in 1..Len(line) : line[i] = 34}

\* the line has the shape of a rule tried before the quoted-text rule
EarlierRule(line) ==
  \/ line \in READY_SIGNALS \/ ShapeDelay(line) \/ ShapeShell(line)
  \/ ShapeExecute(line) \/ ShapePipe(line)

\* C36: a trimmed line no earlier rule matches and that has two quotes or
\* more gives a Text whose text is what stands between the first and the last
\* quote and whose modifiers and keys are the mapped tokens of what stands
\* before the first quote without its trailing '+', or a Url of that text
\* when nothing stands before it and the text looks like a URL; with exactly
\* one quote it gives a Keystroke.
QuotedTextRule ==
  (KeysParsed /\ ~EarlierRule(Strip(raw_command))) =>
    LET line   == Strip(raw_command)
        cmd    == command.cmd
        first  == CHOOSE i \in Quotes(line) : \A j \in Quotes(line) : i <= j
        last   == CHOOSE i \in Quotes(line) : \A j \in Quotes(line) : j <= i
        text   == SubSeq(line, first + 1, last - 1)
        prefix == RStripChar(SubSeq(line, 1, first - 1), 43)
        names  == MappedKeys(prefix)
    IN /\ Cardinality(Quotes(line)) >= 2 =>
            IF prefix = <<>> /\ IsUrl(text)
            THEN cmd.command_type = "url" /\ cmd.url = text
            ELSE /\ cmd.command_type = "text" /\ cmd.text_content = text
                 /\ cmd.modifiers = SelectSeq(names, LAMBDA k : k \in MODIFIER_KEYS)
                 /\ cmd.keys = SelectSeq(names, LAMBDA k : k \notin MODIFIER_KEYS)
       /\ Cardinality(Quotes(line)) = 1 => cmd.command_type = "keystroke"

\* a Text with a modifier before it and a quote inside it
QuotedTextRuleWitness ==
  /\ KeysParsed /\ command.cmd.command_type = "text"
  /\ command.cmd.modifiers # <<>>
  /\ 34 \in Range(command.cmd.text_content)

\* C37: parse returns a Delay, with delay_ms the number written, exactly for
\* the trimmed lines made of 'D' or 'd' and one or more decimal digits; every
\* other line, 'D' alone and 'D' before anything but digits included, goes on
\* to the later rules and comes back as the command of one of them.
DelayRule ==
  (variant = "parse" /\ pc = "parsed") =>
    LET line == Strip(raw_command)
    IN IF ShapeDelay(line)
       THEN /\ command.exc = "none"
            /\ command.cmd.command_type = "delay"
            /\ command.cmd.delay_ms = IntValue(SubSeq(line, 2, Len(line)))
       ELSE /\ command.exc = "none"
            /\ command.cmd.command_type \in FirstRule(line) \ {"delay"}

\* the text starts, in any mix of cases, with http://, https://, www. or ftp://
UrlLike(text) ==
  \E p \in { <<104,116,116,112,58,47,47>>, <<104,116,116,112,115,58,47,47>>,
              <<119,119,119,46>>, <<102,116,112,58,47,47>> } :
    /\ Len(text) >= Len(p)
    /\ \A i \in 1..Len(p) : text[i] \in {p[i], UpperChar(p[i])}

\* C38: a trimmed line of more than two characters that starts and ends with
\* '|' gives a Url of its inner text when that text is URL-like and a FilePath
\* of it otherwise, the inner text unchanged; '|' and '||' give neither.
PipeRule ==
  KeysParsed =>
    LET line  == Strip(raw_command)
        cmd   == command.cmd
        inner == SubSeq(line, 2, Len(line) - 1)
    IN /\ (Len(line) > 2 /\ line[1] = 124 /\ line[Len(line)] = 124) =>
            IF UrlLike(inner)
            THEN cmd.command_type = "url" /\ cmd.url = inner
            ELSE cmd.command_type = "file_path" /\ cmd.file_path = inner
       /\ line \in {<<124>>, <<124, 124>>} =>
            cmd.command_type \notin {"url", "file_path"}

\* a piped URL written in mixed case
PipeRuleWitness ==
  /\ KeysParsed /\ command.cmd.command_type = "url"
  /\ Strip(raw_command)[1] = 124
  /\ command.cmd.url = <<87,119,119,46>>

\* C39: executing a Keystroke without modifiers and keys, as '+' parses to,
\* returns (false, "No keys") whatever injection call would fail, so that no
\* key event is attempted.
EmptyChordRefused ==
  ( /\ Executed
    /\ command.cmd.command_type = "keystroke"
    /\ command.cmd.modifiers = <<>> /\ command.cmd.keys = <<>> ) =>
    result = Ret(FALSE, "No keys")

\* the line '+' executed where pressing a chord would raise
EmptyChordRefusedWitness ==
  /\ Executed /\ raw_command = <<43>>
  /\ "press_and_release" \in env.faults
  /\ result.message = "No keys"

\* C40: on every line that command_handler parses by a rule kb_handler has
\* too (ready signal, EXECUTE+, quoted text, keystroke), the two parsers
\* return the same command type, modifiers, keys, text and execute path
\* under the same layout.
ParsersAgree ==
  ( /\ variant = "keys" /\ pc = "compared"
    /\ command.exc = "none"
    /\ command.cmd.command_type \in {"ready_signal", "execute", "text", "keystroke"} ) =>
    /\ result.cmd.command_type = command.cmd.command_type
    /\ result.cmd.modifiers = command.cmd.modifiers
    /\ result.cmd.keys = command.cmd.keys
    /\ result.cmd.text_content = command.cmd.text_content
    /\ result.cmd.execute_path = command.cmd.execute_path
====
